---------------------------- MODULE Spec2Model ----------------------------
(***************************************************************************)
(* A model of the QR Code structural decoder of google-sheet-qrcode        *)
(* (src/qr.ts): toTable and the functions it calls, in call order.         *)
(*                                                                         *)
(* Conventions.  Rows and columns are 0-based as in the source; TLA+       *)
(* sequences are 1-based, so element i of a JavaScript array is element    *)
(* i+1 of the sequence that models it.  A grid is the function of its      *)
(* rows, grid[r][c] a bit.  A JavaScript string is the sequence of its     *)
(* code points.  Every specification below runs a part of toTable, or of   *)
(* toHtml (src/google-sheet-html.ts), on inputs drawn by its Init; the     *)
(* variables a specification does not use keep the value Idle.             *)
(***************************************************************************)
EXTENDS Integers, Sequences, FiniteSets, TLC

VARIABLES
    pc,                   \* the statement of toTable that runs next
    error,                \* the message of the Error thrown, "none" while none is
    originalQRCode,       \* the input grid (the cells the running part reads)
    rowLengths,           \* row.length of every row of originalQRCode
    L,                    \* originalQRCode.length
    version,              \* toTable: version
    originalFormatBits,   \* getOriginalFormatBits(...).originalFormatBits
    bestOptionIndex,      \* getFormatBits: bestOptionIndex
    formatBits,           \* getFormatBits(...).formatBits
    errorCorrectionLevel, \* getErrorCorrectionLevel(...).errorCorrectionLevel.name
    maskIndex,            \* getMaskGrid: maskIndex
    maskGrid,             \* getMaskGrid(...).maskGrid
    nonDataAreas,         \* getDataAreas: the cells where dataAreas is false
    dataCoordinates,      \* getDataCoordinates(...)
    maskedQRCode,         \* getMaskedQRCode(...).maskedQRCode
    codewords,            \* getCodewords(...).codewords
    encodingMode,         \* getEncodingMode(...).encodingMode
    length,               \* getLength(...).length
    decodedData,          \* getDecodedData(...).decodedData
    bch_bits,             \* BCH_encode: the argument bits
    bch_encoded,          \* BCH_encode: encoded
    bch_i,                \* BCH_encode: the loop counter i
    bch_result,           \* BCH_encode: the value returned
    returned,             \* what the calls of toTable so far returned or threw
    table,                \* toHtml: table, the ref of every cell
    refs,                 \* toHtml: refs, the position of the cell of every ref
    cell_r,               \* toHtml: r, the row of the cell
    cell_c,               \* toHtml: c, the column of the cell
    cell_formula,         \* toHtml: cell.formula
    formula,              \* toHtml: formula
    alignment_k,          \* getDataAreas: the pairs [r, c] of the alignment loops done
    scan_r,               \* getDataCoordinates: r
    scan_c,               \* getDataCoordinates: c
    scan_dr,              \* getDataCoordinates: dr
    scan_iterations       \* getDataCoordinates: the iterations of the while loop done

inputVars == <<originalQRCode, rowLengths, L, version>>
formatVars == <<originalFormatBits, bestOptionIndex, formatBits,
                errorCorrectionLevel, maskIndex, maskGrid>>
bchVars == <<bch_bits, bch_encoded, bch_i, bch_result>>

geomVars == <<nonDataAreas, dataCoordinates>>
decodeVars == <<maskedQRCode, codewords, encodingMode, length, decodedData>>

htmlVars == <<table, refs, cell_r, cell_c, cell_formula, formula>>

loopVars == <<alignment_k, scan_r, scan_c, scan_dr, scan_iterations>>

vars == <<pc, error, inputVars, formatVars, geomVars, decodeVars, bchVars,
          returned, htmlVars, loopVars>>

Idle == "idle"

Bit == {0, 1}

(***************************************************************************)
(* util.ts                                                                 *)
(***************************************************************************)
\* range(n) = [0, 1, ..., n-1]
range(n) == [i \in 1..n |-> i - 1]

\* the least element of a non-empty set of integers
Min(S) == CHOOSE x \in S : \A y \in S : x <= y

\* the concatenation of the sequences lists[lo], ..., lists[hi]
RECURSIVE flatten(_, _, _)
flatten(lists, lo, hi) ==
    IF lo > hi THEN <<>>
    ELSE IF lo = hi THEN lists[lo]
    ELSE flatten(lists, lo, (lo + hi) \div 2)
         \o flatten(lists, ((lo + hi) \div 2) + 1, hi)

\* Math.min(...list), list not empty: the entry that no entry is below
mathMin(list) ==
    CHOOSE m \in {list[i] : i \in 1..Len(list)} :
        \A i \in 1..Len(list) : m <= list[i]

\* list.indexOf(x), 0-based: the first position holding x, -1 when there is none
indexOf(list, x) ==
    IF \A i \in 1..Len(list) : list[i] # x
    THEN -1
    ELSE (CHOOSE i \in 1..Len(list) :
              list[i] = x /\ \A j \in 1..(i - 1) : list[j] # x) - 1

(***************************************************************************)
(* JavaScript integer and string primitives used by getFormatBits          *)
(***************************************************************************)
Pow2(n) == 2 ^ n

\* the sequence f as an explicit table: every entry is evaluated once, when
\* the table is built, and not at each use
Tabulate(f) == SubSeq(f, 1, Len(f))

\* a ^ b on two 5-bit operands: entry [a + 1][b + 1]
Xor5 ==
    Tabulate([a \in 1..32 |-> Tabulate([b \in 1..32 |->
        LET bit(k) == (((a - 1) \div Pow2(k)) + ((b - 1) \div Pow2(k))) % 2
        IN  bit(0) + 2 * bit(1) + 4 * bit(2) + 8 * bit(3) + 16 * bit(4)])])

\* a ^ b for operands below 2^15 (all the operands of getFormatBits are)
BitXor(a, b) ==
    Xor5[(a % 32) + 1][(b % 32) + 1]
    + 32 * Xor5[((a \div 32) % 32) + 1][((b \div 32) % 32) + 1]
    + 1024 * Xor5[(a \div 1024) + 1][(b \div 1024) + 1]

\* x.toString(2): the binary digits of x, most significant first; "0" for 0
RECURSIVE toString2(_)
toString2(x) == IF x < 2 THEN <<x>> ELSE Append(toString2(x \div 2), x % 2)

\* s.replace("0", ""): a string pattern replaces the FIRST occurrence only
replaceFirstZero(s) ==
    IF \E i \in 1..Len(s) : s[i] = 0
    THEN LET k == Min({i \in 1..Len(s) : s[i] = 0})
         IN  [i \in 1..(Len(s) - 1) |-> IF i < k THEN s[i] ELSE s[i + 1]]
    ELSE s

\* parseInt2 with the first bit taken as the least significant one
RECURSIVE parseInt2_littleEndian(_)
parseInt2_littleEndian(bits) ==
    IF bits = <<>> THEN 0
    ELSE bits[1] + 2 * parseInt2_littleEndian(SubSeq(bits, 2, Len(bits)))

\* parseInt(bits.join(""), 2): big-endian value of a bit array
RECURSIVE parseInt2(_)
parseInt2(bits) ==
    IF bits = <<>> THEN 0
    ELSE 2 * parseInt2(SubSeq(bits, 1, Len(bits) - 1)) + bits[Len(bits)]

(***************************************************************************)
(* A grid is the function of its rows, a row the function of its modules,  *)
(* both indexed from 0 as the arrays of the program: grid[r][c].  A grid   *)
(* may hold only the modules that the statements under study read.         *)
(***************************************************************************)
bitAt(grid, cell) == grid[cell[1]][cell[2]]

hasCell(grid, cell) ==
    cell[1] \in DOMAIN grid /\ cell[2] \in DOMAIN grid[cell[1]]

gridCells(grid) == UNION {{<<r, c>> : c \in DOMAIN grid[r]} : r \in DOMAIN grid}

gridRows(cells, bitOf(_)) ==
    [r \in {cell[1] : cell \in cells} |->
        [c \in {cell[2] : cell \in {x \in cells : x[1] = r}} |-> bitOf(<<r, c>>)]]

(***************************************************************************)
(* getFormatCoordinates                                                    *)
(***************************************************************************)
getFormatCoordinates(l) ==
    [horizontal |->
        [i \in 1..15 |->
            <<8, <<0, 1, 2, 3, 4, 5, 7, l - 8, l - 7, l - 6, l - 5, l - 4,
                   l - 3, l - 2, l - 1>>[i]>>],
     vertical |->
        [i \in 1..15 |->
            <<<<l - 1, l - 2, l - 3, l - 4, l - 5, l - 6, l - 7, 8, 7, 5, 4,
                3, 2, 1, 0>>[i], 8>>]]

(***************************************************************************)
(* getFormatBits                                                           *)
(***************************************************************************)
\* BCH_encode, before the loop: let encoded = (bits ^ upperMask) << 10
BCH_init(bits) ==
    LET upperMask == 21       \* 0b10101
    IN  BitXor(bits, upperMask) * 1024

\* BCH_body with a mistyped generator, 0b10100111001
BCH_body_wrongGenerator(encoded, i) ==
    LET g == 1337
    IN  IF (encoded \div Pow2(i)) % 2 = 1
        THEN BitXor(encoded, g * Pow2(i - 10))
        ELSE encoded

\* BCH_encode, the loop body: if ((encoded >> i) % 2) encoded ^= g << (i - 10)
BCH_body(encoded, i) ==
    LET g == 1335             \* 0b10100110111
    IN  IF (encoded \div Pow2(i)) % 2 = 1
        THEN BitXor(encoded, g * Pow2(i - 10))
        ELSE encoded

\* BCH_encode, the return: (bits << 10) + (encoded ^ lowerMask)
BCH_return(bits, encoded) ==
    LET lowerMask == 18       \* 0b10010
    IN  (bits * 1024) + BitXor(encoded, lowerMask)

\* BCH_encode, the loop condition: i >= 10
BCH_continue(i) == i >= 10

\* the loop of BCH_encode: for (let i = 14; i >= 10; i--)
RECURSIVE BCH_loop(_, _)
BCH_loop(encoded, i) ==
    IF BCH_continue(i) THEN BCH_loop(BCH_body(encoded, i), i - 1) ELSE encoded

BCH_encode(bits) == BCH_return(bits, BCH_loop(BCH_init(bits), 14))

\* range(32).map(BCH_encode)
BCH_options == Tabulate([v \in 1..32 |-> BCH_encode(v - 1)])

\* (x).toString(2).replace("0", "").length
hammingLength(x) == Len(replaceFirstZero(toString2(x)))

\* hammingLength over the 15-bit values: entry x + 1
hammingTable == Tabulate([i \in 1..32768 |-> hammingLength(i - 1)])

\* BCH_options.map(val => (originalFormatInt ^ val).toString(2).replace("0", "").length)
hamming(originalFormatInt) ==
    [v \in 1..32 |-> hammingTable[BitXor(originalFormatInt, BCH_options[v]) + 1]]

\* hamming.indexOf(Math.min(...hamming))
getBestOptionIndex(bits) ==
    LET h == hamming(parseInt2(bits))
    IN  indexOf(h, mathMin(h))

\* range(15).map(i => (bestOption >> (14 - i)) % 2)
optionBits(bestOption) == [i \in 1..15 |-> (bestOption \div Pow2(15 - i)) % 2]

(***************************************************************************)
(* getErrorCorrectionLevel, getMaskGrid: the fields of formatBits          *)
(***************************************************************************)
errorCorrectionLevels == <<"H", "Q", "M", "L">>

\* errorCorrectionLevels[parseInt(formatBits.slice(0, 2).join(""), 2)].name
getErrorCorrectionLevelName(bits) ==
    errorCorrectionLevels[parseInt2(SubSeq(bits, 1, 2)) + 1]

\* getMaskIndex with the slice taken one position early: slice(1, 4)
getMaskIndex_slice14(bits) == parseInt2(SubSeq(bits, 2, 4))

\* parseInt(formatBits.slice(2, 5).join(""), 2)
getMaskIndex(bits) == parseInt2(SubSeq(bits, 3, 5))

\* the mask functions, the one of index 1 with rows paired by four
maskFunctions_rowsByFour(m, i, j) ==
    CASE m = 0 -> ((i * j) % 2) + ((i * j) % 3) = 0
      [] m = 1 -> ((i \div 4) + (j \div 3)) % 2 = 0
      [] m = 2 -> (((i * j) % 3) + i + j) % 2 = 0
      [] m = 3 -> (((i * j) % 3) + i * j) % 2 = 0
      [] m = 4 -> i % 2 = 0
      [] m = 5 -> (i + j) % 2 = 0
      [] m = 6 -> (i + j) % 3 = 0
      [] m = 7 -> j % 3 = 0

\* maskFunctions[m](i, j)
maskFunctions(m, i, j) ==
    CASE m = 0 -> ((i * j) % 2) + ((i * j) % 3) = 0
      [] m = 1 -> ((i \div 2) + (j \div 3)) % 2 = 0
      [] m = 2 -> (((i * j) % 3) + i + j) % 2 = 0
      [] m = 3 -> (((i * j) % 3) + i * j) % 2 = 0
      [] m = 4 -> i % 2 = 0
      [] m = 5 -> (i + j) % 2 = 0
      [] m = 6 -> (i + j) % 3 = 0
      [] m = 7 -> j % 3 = 0

\* the side of the tile that getMaskGrid tabulates every mask function on
MaskTile == 12

\* maskFunctions.map(f => range(12).map(i => range(12).map(j => (f(i, j) ? 1 : 0))))
masks ==
    Tabulate([m \in 1..8 |-> Tabulate([i \in 1..MaskTile |-> Tabulate([j \in 1..MaskTile |->
        IF maskFunctions(m - 1, i - 1, j - 1) THEN 1 ELSE 0])])])

(***************************************************************************)
(* toTable, the format-information statements                              *)
(***************************************************************************)
GetOriginalFormatBits ==
    /\ pc = "getOriginalFormatBits"
    /\ originalFormatBits' =
          LET formatCoordinates == getFormatCoordinates(L)
          IN  [i \in 1..15 |->
                  bitAt(originalQRCode, formatCoordinates.horizontal[i])]
    /\ pc' = "getFormatBits"
    /\ UNCHANGED <<returned, htmlVars, loopVars, error, inputVars, bchVars, geomVars, decodeVars, bestOptionIndex, formatBits,
                   errorCorrectionLevel, maskIndex, maskGrid>>

GetFormatBits ==
    /\ pc = "getFormatBits"
    /\ bestOptionIndex' = getBestOptionIndex(originalFormatBits)
    /\ formatBits' = optionBits(BCH_options[bestOptionIndex' + 1])
    /\ pc' = "getErrorCorrectionLevel"
    /\ UNCHANGED <<returned, htmlVars, loopVars, error, inputVars, bchVars, geomVars, decodeVars, originalFormatBits,
                   errorCorrectionLevel, maskIndex, maskGrid>>

GetErrorCorrectionLevel ==
    /\ pc = "getErrorCorrectionLevel"
    /\ errorCorrectionLevel' = getErrorCorrectionLevelName(formatBits)
    /\ pc' = "getMaskGrid"
    /\ UNCHANGED <<returned, htmlVars, loopVars, error, inputVars, bchVars, geomVars, decodeVars, originalFormatBits,
                   bestOptionIndex, formatBits, maskIndex, maskGrid>>

GetMaskGrid ==
    /\ pc = "getMaskGrid"
    /\ maskIndex' = getMaskIndex(formatBits)
    /\ maskGrid' = masks[maskIndex' + 1]
    /\ pc' = "getDataCoordinates"
    /\ UNCHANGED <<returned, htmlVars, loopVars, error, inputVars, bchVars, geomVars, decodeVars, originalFormatBits,
                   bestOptionIndex, formatBits, errorCorrectionLevel>>

(***************************************************************************)
(* SpecFormat: the format-information part of toTable on a grid of size    *)
(* FormatL whose 30 format modules hold any horizontal copy and a vertical *)
(* copy that is either the same or a table codeword the horizontal copy    *)
(* was corrupted from.                                                     *)
(***************************************************************************)
FormatL == 21

\* number of 1 bits of a 15-bit value
popCount(x) ==
    LET bit(k) == (x \div Pow2(k)) % 2
    IN  bit(0) + bit(1) + bit(2) + bit(3) + bit(4) + bit(5) + bit(6) + bit(7)
        + bit(8) + bit(9) + bit(10) + bit(11) + bit(12) + bit(13) + bit(14)

popCountTable == Tabulate([i \in 1..32768 |-> popCount(i - 1)])

\* a corruption flips at most MaxFlips of the 15 bits of a copy
MaxFlips == 3

ErrorPatterns == {e \in 0..32767 : popCountTable[e + 1] <= MaxFlips}

\* the grid cells that hold format information, filled with two 15-bit values:
\* bit i of a copy is written at entry i of the copy's coordinate list
FormatGrid(l, horizontalInt, verticalInt) ==
    LET hbits == optionBits(horizontalInt)
        vbits == optionBits(verticalInt)
        cells == {<<8, c>> : c \in (0..5) \cup {7} \cup ((l - 8)..(l - 1))}
                 \cup {<<r, 8>> : r \in (0..5) \cup {7, 8} \cup ((l - 7)..(l - 1))}
        hIndex(c) == IF c < 6 THEN c + 1 ELSE IF c = 7 THEN 7 ELSE c - (l - 8) + 8
        vIndex(r) == IF r >= l - 7 THEN l - r ELSE IF r >= 7 THEN 16 - r ELSE 15 - r
        bitOf(cell) == IF cell[1] = 8 /\ cell[2] # 8
                       THEN hbits[hIndex(cell[2])]
                       ELSE vbits[vIndex(cell[1])]
    IN  gridRows(cells, bitOf)

IdleFormat ==
    /\ originalFormatBits = Idle
    /\ bestOptionIndex = Idle
    /\ formatBits = Idle
    /\ errorCorrectionLevel = Idle
    /\ maskIndex = Idle
    /\ maskGrid = Idle

IdleLoop ==
    /\ alignment_k = Idle
    /\ scan_r = Idle
    /\ scan_c = Idle
    /\ scan_dr = Idle
    /\ scan_iterations = Idle

IdleHtml ==
    /\ table = Idle
    /\ refs = Idle
    /\ cell_r = Idle
    /\ cell_c = Idle
    /\ cell_formula = Idle
    /\ formula = Idle

IdleGeom ==
    /\ nonDataAreas = Idle
    /\ dataCoordinates = Idle

IdleDecode ==
    /\ maskedQRCode = Idle
    /\ codewords = Idle
    /\ encodingMode = Idle
    /\ length = Idle
    /\ decodedData = Idle

IdleBCH ==
    /\ bch_bits = Idle
    /\ bch_encoded = Idle
    /\ bch_i = Idle
    /\ bch_result = Idle

InitFormat ==
    /\ pc = "getOriginalFormatBits"
    /\ returned = <<>>
    /\ IdleHtml
    /\ IdleLoop
    /\ error = "none"
    /\ L = FormatL
    /\ version = (L - 17) \div 4
    /\ rowLengths = [r \in 1..L |-> L]
    /\ \/ \E h \in 0..32767 : originalQRCode = FormatGrid(L, h, h)
       \/ \E v \in 1..32, e \in ErrorPatterns :
             \/ originalQRCode =
                   FormatGrid(L, BitXor(BCH_options[v], e), BCH_options[v])
             \/ originalQRCode =
                   FormatGrid(L, BCH_options[v], BitXor(BCH_options[v], e))
    /\ IdleFormat
    /\ IdleGeom
    /\ IdleDecode
    /\ IdleBCH

NextFormat ==
    \/ GetOriginalFormatBits
    \/ GetFormatBits
    \/ GetErrorCorrectionLevel
    \/ GetMaskGrid

SpecFormat == InitFormat /\ [][NextFormat]_vars

(***************************************************************************)
(* What the grid holds, read without the decoder's own conversions         *)
(***************************************************************************)
\* the value of the 15 modules at coords, the first one most significant
GridValue(coords) ==
    LET b(i) == bitAt(originalQRCode, coords[i])
    IN  16384 * b(1) + 8192 * b(2) + 4096 * b(3) + 2048 * b(4) + 1024 * b(5)
        + 512 * b(6) + 256 * b(7) + 128 * b(8) + 64 * b(9) + 32 * b(10)
        + 16 * b(11) + 8 * b(12) + 4 * b(13) + 2 * b(14) + b(15)

HorizontalValue == GridValue(getFormatCoordinates(L).horizontal)

VerticalValue == GridValue(getFormatCoordinates(L).vertical)

\* the number of bit positions in which two 15-bit values differ
HammingDistance(a, b) == popCountTable[BitXor(a, b) + 1]

\* the level and the mask index a 15-bit format codeword carries
LevelOf(codeword) == <<"H", "Q", "M", "L">>[(codeword \div 8192) + 1]

MaskOf(codeword) == (codeword \div 1024) % 8

FormatDecoded ==
    pc \in {"getErrorCorrectionLevel", "getMaskGrid", "getDataCoordinates"}

LevelDecoded == pc \in {"getMaskGrid", "getDataCoordinates"}

MaskDecoded == pc = "getDataCoordinates"

(***************************************************************************)
(* C3.  If the format modules the decoder reads hold exactly one of the 32 *)
(* table codewords, getFormatBits selects the index of that codeword and   *)
(* returns the observed bits.                                              *)
(***************************************************************************)
C3_ExactCodewordSelected ==
    FormatDecoded =>
        LET observed == HorizontalValue
        IN  \A v \in 1..32 :
                observed = BCH_options[v] =>
                    /\ bestOptionIndex = v - 1
                    /\ formatBits = originalFormatBits
                    /\ observed =
                          16384 * formatBits[1] + 8192 * formatBits[2]
                          + 4096 * formatBits[3] + 2048 * formatBits[4]
                          + 1024 * formatBits[5] + (BCH_options[v] % 1024)

C3_Witness ==
    /\ FormatDecoded
    /\ HorizontalValue = BCH_options[23]
    /\ bestOptionIndex = 22

(***************************************************************************)
(* C4.  If both copies were written with one table codeword and then up to *)
(* 3 bits of one 15-bit copy are flipped, the decoded level and mask index *)
(* are those of the written codeword.                                      *)
(***************************************************************************)
C4_ThreeFlipsCorrected ==
    LevelDecoded =>
        LET horizontal == HorizontalValue
            vertical == VerticalValue
        IN  \A v \in 1..32 :
                (\/ /\ vertical = BCH_options[v]
                    /\ HammingDistance(horizontal, BCH_options[v]) <= 3
                 \/ /\ horizontal = BCH_options[v]
                    /\ HammingDistance(vertical, BCH_options[v]) <= 3)
                => /\ errorCorrectionLevel = LevelOf(BCH_options[v])
                   /\ MaskDecoded => maskIndex = MaskOf(BCH_options[v])

(***************************************************************************)
(* C5.  The selected index minimises the Hamming distance to the           *)
(* horizontal copy plus the Hamming distance to the vertical copy, and is  *)
(* the lowest index among equal minima.                                    *)
(***************************************************************************)
DualDistance(horizontal, vertical, v) ==
    HammingDistance(horizontal, BCH_options[v])
    + HammingDistance(vertical, BCH_options[v])

C5_DualCopyNearest ==
    FormatDecoded =>
        LET horizontal == HorizontalValue
            vertical == VerticalValue
            best == DualDistance(horizontal, vertical, bestOptionIndex + 1)
        IN  /\ \A v \in 1..32 : best <= DualDistance(horizontal, vertical, v)
            /\ \A v \in 1..bestOptionIndex :
                  best < DualDistance(horizontal, vertical, v)

(***************************************************************************)
(* C6.  Whatever the format modules hold, format decoding raises no error  *)
(* and yields an index in 0..31, the level [H,Q,M,L][top two bits of the   *)
(* selected entry] and the mask index given by its next three bits.        *)
(***************************************************************************)
C6_FormatAlwaysResolved ==
    /\ error = "none"
    /\ FormatDecoded =>
          /\ bestOptionIndex \in 0..31
          /\ formatBits = optionBits(BCH_options[bestOptionIndex + 1])
    /\ LevelDecoded =>
          errorCorrectionLevel = LevelOf(BCH_options[bestOptionIndex + 1])
    /\ MaskDecoded =>
          /\ maskIndex \in 0..7
          /\ maskIndex = MaskOf(BCH_options[bestOptionIndex + 1])

\* a badly corrupted copy: more than 3 bits away from every table codeword
C6_Witness ==
    /\ MaskDecoded
    /\ errorCorrectionLevel = "Q"
    /\ maskIndex = 5
    /\ LET observed == HorizontalValue
       IN  \A v \in 1..32 : HammingDistance(observed, BCH_options[v]) > 3

(***************************************************************************)
(* SpecBCH: BCH_encode, statement by statement, on every format value.     *)
(***************************************************************************)
BCH_Start ==
    /\ pc = "BCH_encode"
    /\ bch_encoded' = BCH_init(bch_bits)
    /\ bch_i' = 14
    /\ pc' = "BCH_loop"
    /\ UNCHANGED <<returned, htmlVars, loopVars, error, inputVars, formatVars, geomVars, decodeVars, bch_bits, bch_result>>

BCH_Step ==
    /\ pc = "BCH_loop"
    /\ BCH_continue(bch_i)
    /\ bch_encoded' = BCH_body(bch_encoded, bch_i)
    /\ bch_i' = bch_i - 1
    /\ UNCHANGED <<returned, htmlVars, loopVars, pc, error, inputVars, formatVars, geomVars, decodeVars, bch_bits, bch_result>>

BCH_Return ==
    /\ pc = "BCH_loop"
    /\ ~BCH_continue(bch_i)
    /\ bch_result' = BCH_return(bch_bits, bch_encoded)
    /\ pc' = "BCH_done"
    /\ UNCHANGED <<returned, htmlVars, loopVars, error, inputVars, formatVars, geomVars, decodeVars, bch_bits, bch_encoded, bch_i>>

IdleInput ==
    /\ originalQRCode = Idle
    /\ rowLengths = Idle
    /\ L = Idle
    /\ version = Idle

InitBCH ==
    /\ pc = "BCH_encode"
    /\ returned = <<>>
    /\ IdleHtml
    /\ IdleLoop
    /\ error = "none"
    /\ bch_bits \in 0..31
    /\ bch_encoded = Idle
    /\ bch_i = Idle
    /\ bch_result = Idle
    /\ IdleInput
    /\ IdleFormat
    /\ IdleGeom
    /\ IdleDecode

NextBCH == BCH_Start \/ BCH_Step \/ BCH_Return

SpecBCH == InitBCH /\ [][NextBCH]_vars

\* the carry-less product q * g of a 5-bit q and the generator g
ClMul(q, g) ==
    LET t(k) == IF (q \div Pow2(k)) % 2 = 1 THEN g * Pow2(k) ELSE 0
    IN  BitXor(BitXor(BitXor(BitXor(t(0), t(1)), t(2)), t(3)), t(4))

\* the remainder of x modulo the generator polynomial 0b10100110111: the
\* value below 2^10 that differs from x by a multiple of the generator
PolyRem(x) ==
    LET q == CHOOSE q \in 0..31 : BitXor(x, ClMul(q, 1335)) < 1024
    IN  BitXor(x, ClMul(q, 1335))

\* ((w * 2^10) OR remainder) XOR 0b101010000010010
StandardCodeword(w) == BitXor((w * 1024) + PolyRem(w * 1024), 21522)

(***************************************************************************)
(* C7 as stated.  Entry v of the table equals ((v * 2^10) OR (v * 2^10     *)
(* modulo the generator)) XOR 0b101010000010010.                           *)
(***************************************************************************)
C7_EntryOfIndex ==
    pc = "BCH_done" => bch_result = StandardCodeword(bch_bits)

(***************************************************************************)
(* C7 as amended.  Entry v of the table is the codeword of the format      *)
(* value w = v XOR 0b10101: ((w * 2^10) OR (w * 2^10 modulo the            *)
(* generator)) XOR 0b101010000010010, whose top five bits are v.           *)
(***************************************************************************)
C7_EntryOfMaskedIndex ==
    pc = "BCH_done" =>
        /\ bch_result = StandardCodeword(BitXor(bch_bits, 21))
        /\ bch_result \div 1024 = bch_bits
        /\ BCH_options[bch_bits + 1] = bch_result

C7_Witness ==
    /\ pc = "BCH_done"
    /\ bch_bits = 13
    /\ bch_result = StandardCodeword(24)

(***************************************************************************)
(* toTable, the validation of the input                                    *)
(***************************************************************************)
MinL == 21
MaxL == 177

\* the size test without its L % 4 === 1 conjunct
validSize_anyParity(l) == l >= MinL /\ l <= MaxL

\* L >= 21 && L <= 177 && L % 4 === 1
validSize(l) == l >= MinL /\ l <= MaxL /\ l % 4 = 1

\* for (const row of originalQRCode) assert(row.length === L, ...)
isSquare(lengths, l) == \A r \in 1..Len(lengths) : lengths[r] = l

\* const L = originalQRCode.length, the two asserts, const version = (L - 17) / 4
Validate ==
    /\ pc = "toTable"
    /\ L' = Len(rowLengths)
    /\ IF ~validSize(L')
       THEN /\ error' = "Invalid QR code size"
            /\ pc' = "thrown"
            /\ UNCHANGED version
       ELSE IF ~isSquare(rowLengths, L')
       THEN /\ error' = "QR code must be a square"
            /\ pc' = "thrown"
            /\ UNCHANGED version
       ELSE /\ version' = (L' - 17) \div 4
            /\ pc' = "getDataAreas"
            /\ UNCHANGED error
    /\ UNCHANGED <<returned, htmlVars, loopVars, originalQRCode, rowLengths, formatVars, geomVars, decodeVars,
                   bchVars>>

(***************************************************************************)
(* Inputs of every height up to MaxRows: square ones, and ones whose first *)
(* or last row is one module longer or shorter than the height.  No module *)
(* is read by the validation, so the grids carry no module.                *)
(***************************************************************************)
MaxRows == 181

EmptyGrid == [r \in {} |-> [c \in {} |-> 0]]

RowShapes(n) ==
    {[r \in 1..n |-> n]}
    \cup {[r \in 1..n |-> IF r = k THEN n + d ELSE n] :
             k \in {1, n} \cap (1..n), d \in {-1, 1}}

InitValidate ==
    /\ pc = "toTable"
    /\ returned = <<>>
    /\ IdleHtml
    /\ IdleLoop
    /\ error = "none"
    /\ \E n \in 0..MaxRows : rowLengths \in RowShapes(n)
    /\ originalQRCode = EmptyGrid
    /\ L = Idle
    /\ version = Idle
    /\ IdleFormat
    /\ IdleGeom
    /\ IdleDecode
    /\ IdleBCH

NextValidate == Validate

SpecValidate == InitValidate /\ [][NextValidate]_vars

(***************************************************************************)
(* C2.  toTable raises an error, before any decoding step runs, for every  *)
(* input whose row count is below 21, above 177 or not congruent to 1      *)
(* modulo 4, and for every input having a row whose length differs from    *)
(* the row count; for every other input it proceeds with version =         *)
(* (L - 17) / 4, an integer in 1..40.                                      *)
(***************************************************************************)
C2_ValidationErrors ==
    LET n == Len(rowLengths)
        rejected == \/ n < 21
                    \/ n > 177
                    \/ n % 4 # 1
                    \/ \E r \in 1..n : rowLengths[r] # n
    IN  pc # "toTable" =>
            /\ L = n
            /\ IdleFormat /\ IdleGeom /\ IdleDecode
            /\ IF rejected
               THEN pc = "thrown" /\ error # "none" /\ version = Idle
               ELSE /\ pc = "getDataAreas" /\ error = "none"
                    /\ version \in 1..40
                    /\ 4 * version + 17 = n

C2_Witness ==
    /\ pc = "thrown"
    /\ error = "QR code must be a square"
    /\ Len(rowLengths) = 25
    /\ rowLengths[25] = 24

(***************************************************************************)
(* getDataAreas.  dataAreas starts all true and is only ever set to false, *)
(* so it is modelled by the set of the cells [r, c] it is false at.        *)
(***************************************************************************)
\* Remove finder patterns and separators
finderPatterns(l) ==
    UNION {{<<i, j>>, <<i, l - 1 - j>>, <<l - 1 - i, j>>} : i \in 0..7, j \in 0..7}

numCoordinates(v) == IF v = 1 THEN 1 ELSE (v \div 7) + 2

\* indexed by version, from 0
secondCoordinate ==
    <<-1, 6, 18, 22, 26, 30, 34, 22, 24, 26, 28, 30, 32, 34, 26, 26, 26, 30, 30,
      30, 34, 28, 26, 30, 28, 32, 30, 34, 26, 30, 26, 30, 34, 30, 34, 30, 24, 28,
      32, 26, 30>>

\* the last coordinate one module nearer to the edge
lastCoordinate_sixFromEdge(l) == l - 6

\* const lastCoordinate = L - 7
lastCoordinate(l) == l - 7

\* [6, secondCoordinate, ...range(numCoordinates - 2).map(i => (secondCoordinate * i
\*     + lastCoordinate * (numCoordinates - 2 - i)) / (numCoordinates - 2))]
\* the quotient is exact for every version
alignmentCoordinates(l, v) ==
    LET n == numCoordinates(v)
        second == secondCoordinate[v + 1]
    IN  <<6, second>>
        \o [k \in 1..(IF n < 2 THEN 0 ELSE n - 2) |->
               (second * (k - 1) + lastCoordinate(l) * (n - 2 - (k - 1)))
                   \div (n - 2)]

\* a 3x3 block around [r, c]
alignmentPattern_threeByThree(r, c) ==
    {<<r + dr, c + dc>> : dr \in -1..1, dc \in -1..1}

\* the 5x5 block around [r, c]
alignmentPattern(r, c) == {<<r + dr, c + dc>> : dr \in -2..2, dc \in -2..2}

\* the block around [r, c] cleared whatever dataAreas[r][c] is
removeAlignmentPattern_untested(cleared, r, c) ==
    cleared \cup alignmentPattern(r, c)

\* if (dataAreas[r][c]) { ... dataAreas[r + dr][c + dc] = false ... }
removeAlignmentPattern(cleared, r, c) ==
    IF <<r, c>> \in cleared
    THEN cleared
    ELSE cleared \cup alignmentPattern(r, c)

\* the k-th pair [r, c] of
\* for (const r of alignmentCoordinates) for (const c of alignmentCoordinates)
alignmentPair(coordinates, k) ==
    <<coordinates[(k \div Len(coordinates)) + 1],
      coordinates[(k % Len(coordinates)) + 1]>>

\* the pairs lo..hi of the two loops, one after the other: the first half of
\* them, then the second half on the set that the first half leaves
RECURSIVE removeAlignmentRange(_, _, _, _)
removeAlignmentRange(cleared, coordinates, lo, hi) ==
    IF lo > hi THEN cleared
    ELSE IF lo = hi
    THEN removeAlignmentPattern(cleared, alignmentPair(coordinates, lo)[1],
                                alignmentPair(coordinates, lo)[2])
    ELSE CHOOSE after \in
             {removeAlignmentRange(half, coordinates, ((lo + hi) \div 2) + 1, hi) :
                 half \in {removeAlignmentRange(cleared, coordinates, lo,
                                                (lo + hi) \div 2)}} : TRUE

\* the two loops from the k-th pair on
removeAlignmentPatterns(cleared, coordinates, k) ==
    removeAlignmentRange(cleared, coordinates, k,
                         (Len(coordinates) * Len(coordinates)) - 1)

\* Remove timing patterns: for (let i = 8; i < L - 8; i++)
timingPatterns(l) ==
    {<<6, i>> : i \in 8..(l - 9)} \cup {<<i, 6>> : i \in 8..(l - 9)}

\* Remove format information
formatInformation(formatCoordinates) ==
    {formatCoordinates.horizontal[i] : i \in 1..15}
    \cup {formatCoordinates.vertical[i] : i \in 1..15}

\* Pixel that's always black
darkModule(l) == {<<l - 8, 8>>}

\* the version test with the bound excluded
hasVersionInformation_above7(v) == v > 7

\* if (version >= 7)
hasVersionInformation(v) == v >= 7

\* Version information (for large codes)
versionInformation(l, v) ==
    IF hasVersionInformation(v)
    THEN UNION {{<<i, j>>, <<j, i>>} : i \in 0..5, j \in (l - 11)..(l - 9)}
    ELSE {}

\* the cells at which the dataAreas returned by getDataAreas is false
getDataAreas(l, v, formatCoordinates) ==
    removeAlignmentPatterns(finderPatterns(l), alignmentCoordinates(l, v), 0)
    \cup timingPatterns(l)
    \cup formatInformation(formatCoordinates)
    \cup darkModule(l)
    \cup versionInformation(l, v)

(***************************************************************************)
(* getDataCoordinates.  The while loop is split at the iterations where r  *)
(* leaves the grid: sweep is the iterations of one column pair, scan the   *)
(* succession of the column pairs.                                         *)
(***************************************************************************)
\* dataAreas[r][c], undefined (falsy) outside the grid
dataAreasAt(cleared, l, r, c) ==
    r >= 0 /\ r < l /\ c >= 0 /\ c < l /\ <<r, c>> \notin cleared

\* the iterations from row r on with r += dr until r === -1 or r === L: the
\* k-th one is at row r + k * dr and pushes [r, c] then [r, c - 1] where
\* dataAreas holds
sweep(l, cleared, r, c, dr) ==
    LET iterations == IF dr = -1 THEN r + 1 ELSE l - r
        visited == [n \in 1..(2 * iterations) |->
                       <<r + (((n - 1) \div 2) * dr), c - ((n - 1) % 2)>>]
        isData(cell) == dataAreasAt(cleared, l, cell[1], cell[2])
    IN  SelectSeq(visited, isData)

\* c -= 2 without the test of column 6
nextColumn_noSkip(c) == c - 2

\* c -= 2, then if (c == 6) c -= 1
nextColumn(c) == IF c - 2 = 6 THEN c - 3 ELSE c - 2

\* c after k more column pairs: nextColumn applied k times
RECURSIVE columnAfter(_, _)
columnAfter(c, k) ==
    IF k = 0 THEN c
    ELSE IF k = 1 THEN nextColumn(c)
    ELSE CHOOSE after \in
             {columnAfter(half, k - (k \div 2)) :
                 half \in {columnAfter(c, k \div 2)}} : TRUE

\* while (c >= 0), from the column pair at c walked in direction dr: the
\* k-th pair after it is at columnAfter(c, k), walked in direction dr when k
\* is even and -dr when it is odd; c decreases, so the loop ends at the first
\* pair with c < 0, which is among the first c + 2
scan(l, cleared, c, dr) ==
    LET columns == Tabulate([k \in 1..(c + 2) |-> columnAfter(c, k - 1)])
        direction(k) == IF k % 2 = 1 THEN dr ELSE -dr
        pair(k) ==
            IF columns[k] < 0
            THEN <<>>
            ELSE sweep(l, cleared, IF direction(k) = -1 THEN l - 1 ELSE 0,
                       columns[k], direction(k))
    IN  flatten([k \in 1..(c + 2) |-> pair(k)], 1, c + 2)

\* let [r, c] = [L - 1, L - 1]; let dr = -1
getDataCoordinates(l, cleared) == scan(l, cleared, l - 1, -1)

(***************************************************************************)
(* toTable, the geometry statements                                        *)
(***************************************************************************)
GetDataAreas ==
    /\ pc = "getDataAreas"
    /\ nonDataAreas' = getDataAreas(L, version, getFormatCoordinates(L))
    /\ pc' = "getOriginalFormatBits"
    /\ UNCHANGED <<returned, htmlVars, loopVars, error, inputVars, formatVars, dataCoordinates, decodeVars,
                   bchVars>>

GetDataCoordinates ==
    /\ pc = "getDataCoordinates"
    /\ dataCoordinates' = getDataCoordinates(L, nonDataAreas)
    /\ pc' = "getMaskedQRCode"
    /\ UNCHANGED <<returned, htmlVars, loopVars, error, inputVars, formatVars, nonDataAreas, decodeVars,
                   bchVars>>

(***************************************************************************)
(* Square grids of every valid size, of which only the format information  *)
(* modules are read by the geometry and format statements: both copies     *)
(* hold one of the codewords of FormatSamples.                             *)
(***************************************************************************)
ValidSizes == {l \in MinL..MaxL : validSize(l)}

FormatSamples == {BCH_options[6], BCH_options[27]}

InitGeom ==
    /\ pc = "toTable"
    /\ returned = <<>>
    /\ IdleHtml
    /\ IdleLoop
    /\ error = "none"
    /\ \E l \in ValidSizes, h \in FormatSamples :
          /\ rowLengths = [r \in 1..l |-> l]
          /\ originalQRCode = FormatGrid(l, h, h)
    /\ L = Idle
    /\ version = Idle
    /\ IdleFormat
    /\ IdleGeom
    /\ IdleDecode
    /\ IdleBCH

NextGeom ==
    \/ Validate
    \/ GetDataAreas
    \/ GetOriginalFormatBits
    \/ GetFormatBits
    \/ GetErrorCorrectionLevel
    \/ GetMaskGrid
    \/ GetDataCoordinates

SpecGeom == InitGeom /\ [][NextGeom]_vars

(***************************************************************************)
(* The symbol capacities of ISO/IEC 18004: the number of codewords (data   *)
(* plus error correction) of versions 1 to 40, and the remainder bits that *)
(* follow the last codeword.                                               *)
(***************************************************************************)
TotalCodewords ==
    <<26, 44, 70, 100, 134, 172, 196, 242, 292, 346, 404, 466, 532, 581, 655,
      733, 815, 901, 991, 1085, 1156, 1258, 1364, 1474, 1588, 1706, 1828, 1921,
      2051, 2185, 2323, 2465, 2611, 2761, 2876, 3034, 3196, 3362, 3532, 3706>>

RemainderBits(v) ==
    IF v = 1 THEN 0
    ELSE IF v <= 6 THEN 7
    ELSE IF v <= 13 THEN 0
    ELSE IF v <= 20 THEN 3
    ELSE IF v <= 27 THEN 4
    ELSE IF v <= 34 THEN 3
    ELSE 0

\* toTable is past its call of getDataAreas, of getDataCoordinates
DataAreasKnown == pc \notin {"toTable", "thrown", "getDataAreas"}

DataCoordinatesKnown ==
    pc \notin {"toTable", "thrown", "getDataAreas", "getOriginalFormatBits",
               "getFormatBits", "getErrorCorrectionLevel", "getMaskGrid",
               "getDataCoordinates"}

\* the number of modules that dataAreas marks as data
NumDataModules == (L * L) - Cardinality(nonDataAreas)

InGrid(cells) == \A cell \in cells : cell[1] \in 0..(L - 1) /\ cell[2] \in 0..(L - 1)

(***************************************************************************)
(* C10 as stated.  For every version 1..40 the number of modules that      *)
(* getDataAreas marks as data, and so the length of the data coordinate    *)
(* sequence, is exactly 8 times the version's total codeword count.        *)
(***************************************************************************)
C10_DataModulesAreCodewords ==
    /\ DataAreasKnown =>
          /\ InGrid(nonDataAreas)
          /\ NumDataModules = 8 * TotalCodewords[version]
    /\ DataCoordinatesKnown =>
          Len(dataCoordinates) = 8 * TotalCodewords[version]

(***************************************************************************)
(* C10 as amended.  For every version 1..40 the number of modules that     *)
(* getDataAreas marks as data, and so the length of the data coordinate    *)
(* sequence, is 8 times the version's total codeword count plus the        *)
(* version's remainder bits: 0 for versions 1, 7..13 and 35..40, 7 for     *)
(* 2..6, 3 for 14..20 and 28..34, 4 for 21..27.                            *)
(***************************************************************************)
C10_DataModulesAreCodewordsAndRemainder ==
    /\ DataAreasKnown =>
          /\ InGrid(nonDataAreas)
          /\ NumDataModules = 8 * TotalCodewords[version] + RemainderBits(version)
    /\ DataCoordinatesKnown =>
          /\ Len(dataCoordinates) = NumDataModules
          /\ Len(dataCoordinates)
                = 8 * TotalCodewords[version] + RemainderBits(version)

C10_Witness ==
    /\ pc = "getMaskedQRCode"
    /\ version = 2
    /\ NumDataModules = 359
    /\ Len(dataCoordinates) = 359

(***************************************************************************)
(* getMaskedQRCode                                                         *)
(***************************************************************************)
\* bit ^ mask, of two bits
xorBit(a, b) == IF a = b THEN 0 ELSE 1

\* the tile index of the legacy 6x6 masks
tileIndex_six(x) == x % 6

\* r % 12, c % 12
tileIndex(x) == x % MaskTile

\* the masking written into the rows of originalQRCode themselves
GetMaskedQRCode_inPlace ==
    /\ pc = "getMaskedQRCode"
    /\ originalQRCode' =
          [r \in DOMAIN originalQRCode |->
              [c \in DOMAIN originalQRCode[r] |->
                  xorBit(originalQRCode[r][c],
                         maskGrid[tileIndex(r) + 1][tileIndex(c) + 1])]]
    /\ maskedQRCode' = originalQRCode'
    /\ pc' = "getCodewords"
    /\ UNCHANGED <<returned, htmlVars, loopVars, error, rowLengths, L, version, formatVars, geomVars,
                   codewords, encodingMode, length, decodedData, bchVars>>

\* originalQRCode.map((row, r) => row.map((bit, c) => bit ^ maskGrid[r % 12][c % 12]))
getMaskedQRCode(grid, tile) ==
    [r \in DOMAIN grid |->
        [c \in DOMAIN grid[r] |->
            xorBit(grid[r][c], tile[tileIndex(r) + 1][tileIndex(c) + 1])]]

GetMaskedQRCode ==
    /\ pc = "getMaskedQRCode"
    /\ maskedQRCode' = getMaskedQRCode(originalQRCode, maskGrid)
    /\ pc' = "getCodewords"
    /\ UNCHANGED <<returned, htmlVars, loopVars, error, inputVars, formatVars, geomVars, codewords, encodingMode,
                   length, decodedData, bchVars>>

(***************************************************************************)
(* Grids of the largest size at the call of getMaskedQRCode, for every     *)
(* mask index: the format information modules and one row r, whose        *)
(* other modules are all b.  The geometry only feeds the display table of  *)
(* getMaskedQRCode and is left out.                                        *)
(***************************************************************************)
RowGrid(l, h, r, b) ==
    LET format == FormatGrid(l, h, h)
        bitOf(cell) == IF hasCell(format, cell) THEN bitAt(format, cell) ELSE b
    IN  gridRows(gridCells(format) \cup {<<r, c>> : c \in 0..(l - 1)}, bitOf)

\* table indexes of format codewords, one of every mask index, two of every level
MaskSamples == {1, 10, 19, 28, 5, 14, 23, 32}

InitMask ==
    /\ pc = "getMaskedQRCode"
    /\ returned = <<>>
    /\ IdleHtml
    /\ IdleLoop
    /\ error = "none"
    /\ L = MaxL
    /\ version = (L - 17) \div 4
    /\ rowLengths = [r \in 1..L |-> L]
    /\ \E v \in MaskSamples :
          /\ \E r \in 0..(L - 1), b \in Bit :
                originalQRCode = RowGrid(L, BCH_options[v], r, b)
          /\ originalFormatBits = optionBits(BCH_options[v])
          /\ bestOptionIndex = v - 1
          /\ formatBits = optionBits(BCH_options[v])
    /\ errorCorrectionLevel = getErrorCorrectionLevelName(formatBits)
    /\ maskIndex = getMaskIndex(formatBits)
    /\ maskGrid = masks[maskIndex + 1]
    /\ IdleGeom
    /\ IdleDecode
    /\ IdleBCH

NextMask == GetMaskedQRCode

SpecMask == InitMask /\ [][NextMask]_vars

\* predicate_m(r, c) as a bit
PredicateBit(m, r, c) == IF maskFunctions(m, r, c) THEN 1 ELSE 0

(***************************************************************************)
(* C8.  For every mask index m in 0..7 and every module (r, c) with        *)
(* 0 <= r, c < L <= 177, the bit of the masked grid returned by            *)
(* getMaskedQRCode is the original bit XOR predicate_m(r, c) evaluated at  *)
(* the true coordinates, the 12x12 tile indexed by r mod 12 and c mod 12   *)
(* gives that same value, and applying the same mask twice restores the    *)
(* original bit.                                                           *)
(***************************************************************************)
C8_MaskedBitIsXorOfPredicate ==
    pc = "getCodewords" =>
        \A r \in DOMAIN originalQRCode : \A c \in DOMAIN originalQRCode[r] :
            LET p == PredicateBit(maskIndex, r, c)
            IN  /\ hasCell(maskedQRCode, <<r, c>>)
                /\ maskedQRCode[r][c] = (originalQRCode[r][c] + p) % 2
                /\ maskGrid[(r % 12) + 1][(c % 12) + 1] = p
                /\ (maskedQRCode[r][c] + p) % 2 = originalQRCode[r][c]

C8_Witness ==
    /\ pc = "getCodewords"
    /\ maskIndex = 1
    /\ hasCell(originalQRCode, <<16, 0>>)
    /\ originalQRCode[16][0] = 0
    /\ maskedQRCode[16][0] = 1

(***************************************************************************)
(* C9 as stated.  Each of the eight mask predicates has a period dividing  *)
(* 6 in the row axis and in the column axis: predicate_m(i, j) =           *)
(* predicate_m(i mod 6, j mod 6), so a 6x6 tile masks every module the     *)
(* same way as the predicate.                                              *)
(***************************************************************************)
C9_PeriodDividesSix ==
    pc = "getCodewords" =>
        \A r \in DOMAIN maskedQRCode : \A c \in DOMAIN maskedQRCode[r] :
            maskFunctions(maskIndex, r, c) = maskFunctions(maskIndex, r % 6, c % 6)

(***************************************************************************)
(* C9 as amended.  Each of the eight mask predicates has a period dividing *)
(* 12 in the row axis and dividing 6 in the column axis; every predicate   *)
(* but the one of index 1, whose row period is 4, also has a row period    *)
(* dividing 6.  So the 12x12 tile masks every module the same way as the   *)
(* predicate, and a 6x6 tile does for every mask index but 1.              *)
(***************************************************************************)
C9_PeriodDividesTwelve ==
    pc = "getCodewords" =>
        \A r \in DOMAIN maskedQRCode : \A c \in DOMAIN maskedQRCode[r] :
            LET p == maskFunctions(maskIndex, r, c)
            IN  /\ p = maskFunctions(maskIndex, r % 12, c % 6)
                /\ maskIndex = 1 => p = maskFunctions(maskIndex, r % 4, c % 6)
                /\ maskIndex # 1 => p = maskFunctions(maskIndex, r % 6, c % 6)

C9_Witness ==
    /\ pc = "getCodewords"
    /\ maskIndex = 1
    /\ hasCell(maskedQRCode, <<6, 0>>)
    /\ ~maskFunctions(maskIndex, 6, 0)
    /\ maskFunctions(maskIndex, 0, 0)

(***************************************************************************)
(* getCodewords                                                            *)
(***************************************************************************)
\* indexed by version, from 1: the run-length encoded numbers of data codewords
\* of the blocks of every error correction level
NUM_CODEWORDS_LIST ==
    <<
      [L |-> <<1, 19>>, M |-> <<1, 16>>, Q |-> <<1, 13>>, H |-> <<1, 9>>],
      [L |-> <<1, 34>>, M |-> <<1, 28>>, Q |-> <<1, 22>>, H |-> <<1, 16>>],
      [L |-> <<1, 55>>, M |-> <<1, 44>>, Q |-> <<2, 17>>, H |-> <<2, 13>>],
      [L |-> <<1, 80>>, M |-> <<2, 32>>, Q |-> <<2, 24>>, H |-> <<4, 9>>],
      [L |-> <<1, 108>>, M |-> <<2, 43>>, Q |-> <<2, 15, 2, 16>>, H |-> <<2, 11, 2, 12>>],
      [L |-> <<2, 68>>, M |-> <<4, 27>>, Q |-> <<4, 19>>, H |-> <<4, 15>>],
      [L |-> <<2, 78>>, M |-> <<4, 31>>, Q |-> <<2, 14, 4, 15>>, H |-> <<4, 13, 1, 14>>],
      [L |-> <<2, 97>>, M |-> <<2, 38, 2, 39>>, Q |-> <<4, 18, 2, 19>>, H |-> <<4, 14, 2, 15>>],
      [L |-> <<2, 116>>, M |-> <<3, 36, 2, 37>>, Q |-> <<4, 16, 4, 17>>, H |-> <<4, 12, 4, 13>>],
      [L |-> <<2, 68, 2, 69>>, M |-> <<4, 43, 1, 44>>, Q |-> <<6, 19, 2, 20>>, H |-> <<6, 15, 2, 16>>],
      [L |-> <<4, 81>>, M |-> <<1, 50, 4, 51>>, Q |-> <<4, 22, 4, 23>>, H |-> <<3, 12, 8, 13>>],
      [L |-> <<2, 92, 2, 93>>, M |-> <<6, 36, 2, 37>>, Q |-> <<4, 20, 6, 21>>, H |-> <<7, 14, 4, 15>>],
      [L |-> <<4, 107>>, M |-> <<8, 37, 1, 38>>, Q |-> <<8, 20, 4, 21>>, H |-> <<12, 11, 4, 12>>],
      [L |-> <<3, 115, 1, 116>>, M |-> <<4, 40, 5, 41>>, Q |-> <<11, 16, 5, 17>>, H |-> <<11, 12, 5, 13>>],
      [L |-> <<5, 87, 1, 88>>, M |-> <<5, 41, 5, 42>>, Q |-> <<5, 24, 7, 25>>, H |-> <<11, 12, 7, 13>>],
      [L |-> <<5, 98, 1, 99>>, M |-> <<7, 45, 3, 46>>, Q |-> <<15, 19, 2, 20>>, H |-> <<3, 15, 13, 16>>],
      [L |-> <<1, 107, 5, 108>>, M |-> <<10, 46, 1, 47>>, Q |-> <<1, 22, 15, 23>>, H |-> <<2, 14, 17, 15>>],
      [L |-> <<5, 120, 1, 121>>, M |-> <<9, 43, 4, 44>>, Q |-> <<17, 22, 1, 23>>, H |-> <<2, 14, 19, 15>>],
      [L |-> <<3, 113, 4, 114>>, M |-> <<3, 44, 11, 45>>, Q |-> <<17, 21, 4, 22>>, H |-> <<9, 13, 16, 14>>],
      [L |-> <<3, 107, 5, 108>>, M |-> <<3, 41, 13, 42>>, Q |-> <<15, 24, 5, 25>>, H |-> <<15, 15, 10, 16>>],
      [L |-> <<4, 116, 4, 117>>, M |-> <<17, 42>>, Q |-> <<17, 22, 6, 23>>, H |-> <<19, 16, 6, 17>>],
      [L |-> <<2, 111, 7, 112>>, M |-> <<17, 46>>, Q |-> <<7, 24, 16, 25>>, H |-> <<34, 13>>],
      [L |-> <<4, 121, 5, 122>>, M |-> <<4, 47, 14, 48>>, Q |-> <<11, 24, 14, 25>>, H |-> <<16, 15, 14, 16>>],
      [L |-> <<6, 117, 4, 118>>, M |-> <<6, 45, 14, 46>>, Q |-> <<11, 24, 16, 25>>, H |-> <<30, 16, 2, 17>>],
      [L |-> <<8, 106, 4, 107>>, M |-> <<8, 47, 13, 48>>, Q |-> <<7, 24, 22, 25>>, H |-> <<22, 15, 13, 16>>],
      [L |-> <<10, 114, 2, 115>>, M |-> <<19, 46, 4, 47>>, Q |-> <<28, 22, 6, 23>>, H |-> <<33, 16, 4, 17>>],
      [L |-> <<8, 122, 4, 123>>, M |-> <<22, 45, 3, 46>>, Q |-> <<8, 23, 26, 24>>, H |-> <<12, 15, 28, 16>>],
      [L |-> <<3, 117, 10, 118>>, M |-> <<3, 45, 23, 46>>, Q |-> <<4, 24, 31, 25>>, H |-> <<11, 15, 31, 16>>],
      [L |-> <<7, 116, 7, 117>>, M |-> <<21, 45, 7, 46>>, Q |-> <<1, 23, 37, 24>>, H |-> <<19, 15, 26, 16>>],
      [L |-> <<5, 115, 10, 116>>, M |-> <<19, 47, 10, 48>>, Q |-> <<15, 24, 25, 25>>, H |-> <<23, 15, 25, 16>>],
      [L |-> <<13, 115, 3, 116>>, M |-> <<2, 46, 29, 47>>, Q |-> <<42, 24, 1, 25>>, H |-> <<23, 15, 28, 16>>],
      [L |-> <<17, 115>>, M |-> <<10, 46, 23, 47>>, Q |-> <<10, 24, 35, 25>>, H |-> <<19, 15, 35, 16>>],
      [L |-> <<17, 115, 1, 116>>, M |-> <<14, 46, 21, 47>>, Q |-> <<29, 24, 19, 25>>, H |-> <<11, 15, 46, 16>>],
      [L |-> <<13, 115, 6, 116>>, M |-> <<14, 46, 23, 47>>, Q |-> <<44, 24, 7, 25>>, H |-> <<59, 16, 1, 17>>],
      [L |-> <<12, 121, 7, 122>>, M |-> <<12, 47, 26, 48>>, Q |-> <<39, 24, 14, 25>>, H |-> <<22, 15, 41, 16>>],
      [L |-> <<6, 121, 14, 122>>, M |-> <<6, 47, 34, 48>>, Q |-> <<46, 24, 10, 25>>, H |-> <<2, 15, 64, 16>>],
      [L |-> <<17, 122, 4, 123>>, M |-> <<29, 46, 14, 47>>, Q |-> <<49, 24, 10, 25>>, H |-> <<24, 15, 46, 16>>],
      [L |-> <<4, 122, 18, 123>>, M |-> <<13, 46, 32, 47>>, Q |-> <<48, 24, 14, 25>>, H |-> <<42, 15, 32, 16>>],
      [L |-> <<20, 117, 4, 118>>, M |-> <<40, 47, 7, 48>>, Q |-> <<43, 24, 22, 25>>, H |-> <<10, 15, 67, 16>>],
      [L |-> <<19, 118, 6, 119>>, M |-> <<18, 47, 31, 48>>, Q |-> <<34, 24, 34, 25>>, H |-> <<20, 15, 61, 16>>]
    >>

\* the names of the levels, in the order of the entries of NUM_CODEWORDS_LIST
levelNames == <<"L", "M", "Q", "H">>

\* for (let i = 0; i < runLenEncodedNumCodewords.length; i += 2)
\*     numCodewords.push(...range(repeat).map(_ => number))
RECURSIVE runLengthDecode(_, _)
runLengthDecode(runLenEncodedNumCodewords, i) ==
    IF i >= Len(runLenEncodedNumCodewords)
    THEN <<>>
    ELSE LET repeat == runLenEncodedNumCodewords[i + 1]
             number == runLenEncodedNumCodewords[i + 2]
         IN  [k \in 1..repeat |-> number]
             \o runLengthDecode(runLenEncodedNumCodewords, i + 2)

getNumCodewordsList(v) ==
    [name \in {"L", "M", "Q", "H"} |->
        runLengthDecode(NUM_CODEWORDS_LIST[v][name], 0)]

\* list.reduce((a, b) => a + b) over the entries lo..hi, 0 when there is none:
\* the additions are grouped by halves, which gives the same sum
RECURSIVE sumRange(_, _, _)
sumRange(list, lo, hi) ==
    IF lo > hi THEN 0
    ELSE IF lo = hi THEN list[lo]
    ELSE sumRange(list, lo, (lo + hi) \div 2)
         + sumRange(list, ((lo + hi) \div 2) + 1, hi)

sum(list) == sumRange(list, 1, Len(list))

\* Math.max(...list), list not empty: the entry that no entry is above
mathMax(list) ==
    CHOOSE m \in {list[i] : i \in 1..Len(list)} :
        \A i \in 1..Len(list) : m >= list[i]

\* twice the largest total
getMaxNumCodewords_doubled(numCodewordsList) ==
    2 * mathMax([k \in 1..4 |-> sum(numCodewordsList[levelNames[k]])])

\* Math.max(...Object.values(numCodewordsList).map(numCodewords => sum))
getMaxNumCodewords(numCodewordsList) ==
    mathMax([k \in 1..4 |-> sum(numCodewordsList[levelNames[k]])])

\* the bits of the slice in the reverse of the scan order
interleavedCodeword_reversed(coordinates, grid, i) ==
    LET last == IF 8 * i + 8 < Len(coordinates) THEN 8 * i + 8 ELSE Len(coordinates)
    IN  [j \in 1..(last - 8 * i) |-> bitAt(grid, coordinates[last + 1 - j])]

\* dataCoordinates.slice(8 * i, 8 * i + 8).map(([r, c]) => maskedQRCode[r][c])
interleavedCodeword(coordinates, grid, i) ==
    LET last == IF 8 * i + 8 < Len(coordinates) THEN 8 * i + 8 ELSE Len(coordinates)
    IN  [j \in 1..(last - 8 * i) |-> bitAt(grid, coordinates[8 * i + j])]

\* lists.push(range(num).map(n => n + index)); index += num: the first index of block b
blockStart(numCodewords, b) ==
    sumRange(numCodewords, 1, b - 1)

\* the round of the while loop that reverses the for loop over lists
shiftRound_lastListFirst(numCodewords, starts, k) ==
    LET count == Len(numCodewords)
        heads == [b \in 1..count |->
                     IF k < numCodewords[count + 1 - b]
                     THEN starts[count + 1 - b] + k
                     ELSE -1]
        shifted(x) == x >= 0
    IN  SelectSeq(heads, shifted)

\* one round of while (lists.some(list => list.length > 0)):
\*     for (const list of lists) if (list.length > 0) ... list.shift() ...
\* after k rounds list b has lost its first k codewords, so round k shifts out
\* codeword starts[b] + k of every list b longer than k, in the order of lists
shiftRound(numCodewords, starts, k) ==
    LET heads == [b \in 1..Len(numCodewords) |->
                     IF k < numCodewords[b] THEN starts[b] + k ELSE -1]
        shifted(x) == x >= 0
    IN  SelectSeq(heads, shifted)

\* the value of index at the start of every round: the number of codewords
\* shifted out by the rounds before
indexAtRounds(rounds) ==
    LET shifted == Tabulate([k \in 1..Len(rounds) |-> Len(rounds[k])])
    IN  [k \in 1..Len(rounds) |-> sumRange(shifted, 1, k - 1)]

\* interleaving, indexed from 0 at entry 1: range(maxNumCodewords).map(_ =>
\* maxNumCodewords), then interleaving[list.shift()] = index++ at every
\* codeword shifted out: codeword starts[b] + k gets the index at the start of
\* round k plus its position in the round
getInterleaving(numCodewords, maxNumCodewords) ==
    LET starts == Tabulate([b \in 1..Len(numCodewords) |->
                               blockStart(numCodewords, b)])
        rounds == Tabulate([k \in 1..mathMax(numCodewords) |->
                               shiftRound(numCodewords, starts, k - 1)])
        index == Tabulate(indexAtRounds(rounds))
        ofList(b) == [k \in 1..numCodewords[b] |->
                         index[k] + indexOf(rounds[k], starts[b] + k - 1)]
    IN  Tabulate(flatten([b \in 1..Len(numCodewords) |-> ofList(b)],
                         1, Len(numCodewords))
                 \o [x \in 1..(maxNumCodewords - sum(numCodewords)) |->
                        maxNumCodewords])

\* range(numCodewords).map(i => interleavedCodewords[interleavings[level][i]])
getCodewords(v, level, coordinates, grid) ==
    LET numCodewordsList == getNumCodewordsList(v)
        numCodewords == sum(numCodewordsList[level])
        maxNumCodewords == getMaxNumCodewords(numCodewordsList)
        interleaving == getInterleaving(numCodewordsList[level], maxNumCodewords)
    IN  [i \in 1..numCodewords |->
            interleavedCodeword(coordinates, grid, interleaving[i])]

\* a failure on every sequence that is not a whole number of codewords
codewordsTableThrows_wholeCodewords(v, coordinates) ==
    Len(coordinates) % 8 # 0

\* const [r, c] = dataCoordinates[8 * i + j] of interleavedCodewordsTable fails
\* on an undefined entry
codewordsTableThrows(v, coordinates) ==
    8 * getMaxNumCodewords(getNumCodewordsList(v)) > Len(coordinates)

GetCodewords ==
    /\ pc = "getCodewords"
    /\ IF codewordsTableThrows(version, dataCoordinates)
       THEN /\ error' = "TypeError"
            /\ pc' = "thrown"
            /\ UNCHANGED codewords
       ELSE /\ codewords' = getCodewords(version, errorCorrectionLevel,
                                         dataCoordinates, maskedQRCode)
            /\ pc' = "getEncodingMode"
            /\ UNCHANGED error
    /\ UNCHANGED <<returned, htmlVars, loopVars, inputVars, formatVars, geomVars, maskedQRCode, encodingMode,
                   length, decodedData, bchVars>>

(***************************************************************************)
(* getEncodingMode, getLength                                              *)
(***************************************************************************)
\* getEncodingModes(version)[code], code a sequence of four bits, with the
\* fallback || encodingModes.Unknown
getEncodingModes(v, code) ==
    CASE code = <<0, 0, 0, 1>> ->
            [name |-> "Numeric",
             lengthBlockSize |-> IF v <= 9 THEN 10 ELSE IF v <= 26 THEN 12 ELSE 14,
             dataBlockSize |-> 10]
      [] code = <<0, 0, 1, 0>> ->
            [name |-> "Alphanumeric",
             lengthBlockSize |-> IF v <= 9 THEN 9 ELSE IF v <= 26 THEN 11 ELSE 13,
             dataBlockSize |-> 11]
      [] code = <<0, 1, 0, 0>> ->
            [name |-> "Byte",
             lengthBlockSize |-> IF v <= 9 THEN 8 ELSE 16,
             dataBlockSize |-> 8]
      [] OTHER ->
            [name |-> "Unknown", lengthBlockSize |-> 8, dataBlockSize |-> 8]

\* codewordPos(n), as the 1-based indexes of codewords
codewordPos(n) == <<(n \div 8) + 1, (n % 8) + 1>>

\* the mode read from the last four bits of codeword 0
getEncodingMode_lastFour(v, words) == getEncodingModes(v, SubSeq(words[1], 5, 8))

\* codewords[0].slice(0, 4)
getEncodingMode(v, words) == getEncodingModes(v, SubSeq(words[1], 1, 4))

\* the length read from the start of the stream, mode indicator included
getLength_fromBitZero(words, mode) ==
    parseInt2([i \in 1..mode.lengthBlockSize |->
                  words[codewordPos(i - 1)[1]][codewordPos(i - 1)[2]]])

\* parseInt(range(lengthBlockSize).map(i => codewords[r][c] at codewordPos(4 + i)), 2)
getLength(words, mode) ==
    parseInt2([i \in 1..mode.lengthBlockSize |->
                  words[codewordPos(4 + i - 1)[1]][codewordPos(4 + i - 1)[2]]])

GetEncodingMode ==
    /\ pc = "getEncodingMode"
    /\ encodingMode' = getEncodingMode(version, codewords)
    /\ pc' = "getLength"
    /\ UNCHANGED <<returned, htmlVars, loopVars, error, inputVars, formatVars, geomVars, maskedQRCode, codewords,
                   length, decodedData, bchVars>>

GetLength ==
    /\ pc = "getLength"
    /\ length' = getLength(codewords, encodingMode)
    /\ pc' = "getDecodedData"
    /\ UNCHANGED <<returned, htmlVars, loopVars, error, inputVars, formatVars, geomVars, maskedQRCode, codewords,
                   encodingMode, decodedData, bchVars>>

(***************************************************************************)
(* getDecodedData.  A string is the sequence of its code points.           *)
(***************************************************************************)
maxDataBlockSize == 13

\* Math.floor((Math.pow(L, 2) - 225) / 12), "crude estimate"
maxNumBlocks(l) == ((l * l) - 225) \div 12

\* the entry of { Alphanumeric: ..., Byte: ..., Numeric: ... }[encodingMode.name],
\* undefined (falsy) for the mode Unknown
cellUsed(name, len, i, j) ==
    CASE name = "Alphanumeric" ->
            (i < len \div 2 /\ j < 11) \/ (i < (len + 1) \div 2 /\ j < 6)
      [] name = "Byte" -> i < len /\ j < 8
      [] name = "Numeric" ->
            \/ (i < len \div 3 /\ j < 10)
            \/ (i < (len + 1) \div 3 /\ j < 7)
            \/ (i < (len + 2) \div 3 /\ j < 4)
      [] OTHER -> FALSE

\* text: cellUsed ? char(codewords[r][c]) : undefined fails when codewords[r]
\* is undefined
dataBlocksTableThrows(l, words, mode, len) ==
    \E i \in 0..(maxNumBlocks(l) - 1), j \in 0..(maxDataBlockSize - 1) :
        /\ cellUsed(mode.name, len, i, j)
        /\ codewordPos(4 + mode.lengthBlockSize + mode.dataBlockSize * i + j)[1]
              > Len(words)

\* range(dataBlockSize).map(j => codewords[r] ? codewords[r][c] : 0)
blockBits(words, mode, i) ==
    [j \in 1..mode.dataBlockSize |->
        LET pos == codewordPos(4 + mode.lengthBlockSize + mode.dataBlockSize * i
                               + j - 1)
        IN  IF pos[1] <= Len(words) THEN words[pos[1]][pos[2]] ELSE 0]

\* "0123456789ABCDEFGHIJKLMNOPQRSTUVWXYZ $%*+-./:"
alphanumericTable ==
    <<48, 49, 50, 51, 52, 53, 54, 55, 56, 57,
      65, 66, 67, 68, 69, 70, 71, 72, 73, 74, 75, 76, 77, 78, 79, 80, 81, 82, 83,
      84, 85, 86, 87, 88, 89, 90,
      32, 36, 37, 42, 43, 45, 46, 47, 58>>

\* what string concatenation makes of undefined: "undefined"
undefinedString == <<117, 110, 100, 101, 102, 105, 110, 101, 100>>

\* n.toString() of a non-negative integer: no leading zero is written
RECURSIVE toString10(_)
toString10(n) ==
    IF n < 10 THEN <<48 + n>> ELSE Append(toString10(n \div 10), 48 + (n % 10))

\* alphanumericTable[int >> 5], nothing when it is undefined (falsy)
alphanumericSingle(int) ==
    IF int \div 32 < Len(alphanumericTable)
    THEN <<alphanumericTable[(int \div 32) + 1]>>
    ELSE <<>>

\* the two characters of a group in the other order
alphanumericPair_remainderFirst(int) ==
    <<alphanumericTable[(int % 45) + 1]>>
    \o (IF int \div 45 < Len(alphanumericTable)
        THEN <<alphanumericTable[(int \div 45) + 1]>>
        ELSE undefinedString)

\* alphanumericTable[Math.floor(int / 45)] + alphanumericTable[int % 45]
alphanumericPair(int) ==
    (IF int \div 45 < Len(alphanumericTable)
     THEN <<alphanumericTable[(int \div 45) + 1]>>
     ELSE undefinedString)
    \o <<alphanumericTable[(int % 45) + 1]>>

\* decodedBlock, the empty string when it is undefined: the comparisons
\* i < length / 2, i === (length - 1) / 2 are on real quotients
decodedBlock(name, len, i, int) ==
    CASE name = "Alphanumeric" ->
            IF 2 * i < len
            THEN IF 2 * i = len - 1
                 THEN alphanumericSingle(int)
                 ELSE alphanumericPair(int)
            ELSE <<>>
      [] name = "Byte" -> IF i < len THEN <<int>> ELSE <<>>
      [] name = "Numeric" ->
            IF 3 * i < len
            THEN toString10(IF 3 * i = len - 1 THEN int \div 64
                            ELSE IF 3 * i = len - 2 THEN int \div 8
                            ELSE int)
            ELSE <<>>
      [] OTHER -> <<>>

\* range(maxNumBlocks).map(i => ... decodedData += decodedBlock)
getDecodedData(l, words, mode, len) ==
    LET decodedBlocks ==
            [i \in 1..maxNumBlocks(l) |->
                decodedBlock(mode.name, len, i - 1,
                             parseInt2(blockBits(words, mode, i - 1)))]
    IN  flatten(decodedBlocks, 1, maxNumBlocks(l))

GetDecodedData ==
    /\ pc = "getDecodedData"
    /\ IF dataBlocksTableThrows(L, codewords, encodingMode, length)
       THEN /\ error' = "TypeError"
            /\ pc' = "thrown"
            /\ UNCHANGED decodedData
       ELSE /\ decodedData' = getDecodedData(L, codewords, encodingMode, length)
            /\ pc' = "done"
            /\ UNCHANGED error
    /\ UNCHANGED <<returned, htmlVars, loopVars, inputVars, formatVars, geomVars, maskedQRCode, codewords,
                   encodingMode, length, bchVars>>

(***************************************************************************)
(* A standard encoder of version 1 symbols with one segment (ISO/IEC       *)
(* 18004).  It writes the modules the decoder reads: both copies of the    *)
(* format information and the data codewords.  The modules of the function *)
(* patterns and of the error correction codewords are never read.          *)
(***************************************************************************)
\* the data mask pattern of reference p
StandardMask(p, i, j) ==
    CASE p = 0 -> (i + j) % 2 = 0
      [] p = 1 -> i % 2 = 0
      [] p = 2 -> j % 3 = 0
      [] p = 3 -> (i + j) % 3 = 0
      [] p = 4 -> ((i \div 2) + (j \div 3)) % 2 = 0
      [] p = 5 -> ((i * j) % 2) + ((i * j) % 3) = 0
      [] p = 6 -> (((i * j) % 2) + ((i * j) % 3)) % 2 = 0
      [] p = 7 -> (((i + j) % 2) + ((i * j) % 3)) % 2 = 0

\* the two-bit indicator of every level, the data codewords of version 1
StandardLevelBits == [L |-> 1, M |-> 0, Q |-> 3, H |-> 2]

StandardDataCodewords == [L |-> 19, M |-> 16, Q |-> 13, H |-> 9]

\* the mode indicator and the width of the character count of versions 1 to 9
StandardModeIndicator ==
    [Numeric |-> <<0, 0, 0, 1>>, Alphanumeric |-> <<0, 0, 1, 0>>,
     Byte |-> <<0, 1, 0, 0>>]

StandardCountWidth == [Numeric |-> 10, Alphanumeric |-> 9, Byte |-> 8]

\* n on width bits, the most significant first
ToBits(n, width) == [i \in 1..width |-> (n \div Pow2(width - i)) % 2]

\* the value of a character of the alphanumeric set
AlphanumericValue(ch) ==
    IF ch \in 48..57 THEN ch - 48
    ELSE IF ch \in 65..90 THEN ch - 55
    ELSE CASE ch = 32 -> 36 [] ch = 36 -> 37 [] ch = 37 -> 38 [] ch = 42 -> 39
           [] ch = 43 -> 40 [] ch = 45 -> 41 [] ch = 46 -> 42 [] ch = 47 -> 43
           [] ch = 58 -> 44

\* groups of three digits on 10 bits, a last group of two on 7, of one on 4
RECURSIVE EncodeNumeric(_)
EncodeNumeric(text) ==
    LET d(i) == text[i] - 48
    IN  IF Len(text) = 0 THEN <<>>
        ELSE IF Len(text) = 1 THEN ToBits(d(1), 4)
        ELSE IF Len(text) = 2 THEN ToBits(10 * d(1) + d(2), 7)
        ELSE ToBits(100 * d(1) + 10 * d(2) + d(3), 10)
             \o EncodeNumeric(SubSeq(text, 4, Len(text)))

\* pairs of characters on 11 bits, a last single character on 6
RECURSIVE EncodeAlphanumeric(_)
EncodeAlphanumeric(text) ==
    IF Len(text) = 0 THEN <<>>
    ELSE IF Len(text) = 1 THEN ToBits(AlphanumericValue(text[1]), 6)
    ELSE ToBits(45 * AlphanumericValue(text[1]) + AlphanumericValue(text[2]), 11)
         \o EncodeAlphanumeric(SubSeq(text, 3, Len(text)))

\* every byte on 8 bits
RECURSIVE EncodeByte(_)
EncodeByte(text) ==
    IF Len(text) = 0 THEN <<>>
    ELSE ToBits(text[1], 8) \o EncodeByte(SubSeq(text, 2, Len(text)))

\* mode indicator, character count, data
Segment(mode, text) ==
    StandardModeIndicator[mode]
    \o ToBits(Len(text), StandardCountWidth[mode])
    \o (CASE mode = "Numeric" -> EncodeNumeric(text)
          [] mode = "Alphanumeric" -> EncodeAlphanumeric(text)
          [] mode = "Byte" -> EncodeByte(text))

Fits(level, mode, text) ==
    Len(Segment(mode, text)) <= 8 * StandardDataCodewords[level]

\* the segment, a terminator of at most four zeros, zeros up to a whole
\* codeword, then the pad codewords 11101100 and 00010001 in turn
DataBits(level, mode, text) ==
    LET capacity == 8 * StandardDataCodewords[level]
        segment == Segment(mode, text)
        terminated == IF Len(segment) + 4 <= capacity THEN Len(segment) + 4
                      ELSE capacity
        aligned == 8 * ((terminated + 7) \div 8)
        pad(k) == IF ((k - aligned - 1) \div 8) % 2 = 0
                  THEN ToBits(236, 8)[((k - aligned - 1) % 8) + 1]
                  ELSE ToBits(17, 8)[((k - aligned - 1) % 8) + 1]
    IN  [k \in 1..capacity |->
            IF k <= Len(segment) THEN segment[k]
            ELSE IF k <= aligned THEN 0
            ELSE pad(k)]

\* the side of a version 1 symbol, the smallest one
StandardSide == MinL

\* the modules of the finder patterns, separators, format information, dark
\* module and timing patterns of a version 1 symbol
StandardFunctionModule(r, c) ==
    \/ r <= 8 /\ c <= 8
    \/ r <= 8 /\ c >= 13
    \/ r >= 13 /\ c <= 8
    \/ r = 6
    \/ c = 6

\* the placement: columns two modules wide from the right, the first one
\* upwards and then in alternate directions, the right module before the left
\* one, the vertical timing column skipped
StandardPlacement ==
    LET right(t) == IF t <= 6 THEN 20 - 2 * t ELSE 19 - 2 * t
        row(t, k) == IF t % 2 = 0 THEN 20 - k ELSE k
        module(n) == <<row(n \div 42, (n % 42) \div 2),
                       right(n \div 42) - (n % 2)>>
        isData(cell) == ~StandardFunctionModule(cell[1], cell[2])
    IN  SelectSeq([n \in 1..420 |-> module(n - 1)], isData)

\* the format information: level and mask reference, the ten BCH bits, the
\* fixed mask 101010000010010
StandardFormats == Tabulate([w \in 1..32 |-> StandardCodeword(w - 1)])

StandardFormat(level, p) == StandardFormats[8 * StandardLevelBits[level] + p + 1]

\* the modules of the symbol whose data codewords hold bits
EncodeBits(level, p, bits) ==
    LET format == FormatGrid(StandardSide,
                             StandardFormat(level, p), StandardFormat(level, p))
        data == {StandardPlacement[k] : k \in 1..Len(bits)}
        dataBit(cell) == bits[CHOOSE k \in 1..Len(bits) : StandardPlacement[k] = cell]
        bitOf(cell) ==
            IF hasCell(format, cell)
            THEN bitAt(format, cell)
            ELSE xorBit(dataBit(cell),
                        IF StandardMask(p, cell[1], cell[2]) THEN 1 ELSE 0)
    IN  gridRows(gridCells(format) \cup data, bitOf)

\* the modules of the symbol of a message
Encode(level, p, mode, text) == EncodeBits(level, p, DataBits(level, mode, text))

(***************************************************************************)
(* The messages encoded: "HELLO WORLD", "AC-42", "007", "8675309", "Hi!"   *)
(* and "2026-11".                                                          *)
(***************************************************************************)
Messages ==
    << [mode |-> "Alphanumeric",
        text |-> <<72, 69, 76, 76, 79, 32, 87, 79, 82, 76, 68>>],
       [mode |-> "Alphanumeric", text |-> <<65, 67, 45, 52, 50>>],
       [mode |-> "Numeric", text |-> <<48, 48, 55>>],
       [mode |-> "Numeric", text |-> <<56, 54, 55, 53, 51, 48, 57>>],
       [mode |-> "Byte", text |-> <<72, 105, 33>>],
       [mode |-> "Byte", text |-> <<50, 48, 50, 54, 45, 49, 49>>] >>

\* every level, mask reference and message whose segment fits the symbol
Inputs ==
    LET count == 4 * 8 * Len(Messages)
        input(n) ==
            [level |-> levelNames[(n \div (8 * Len(Messages))) + 1],
             mask |-> (n \div Len(Messages)) % 8,
             mode |-> Messages[(n % Len(Messages)) + 1].mode,
             text |-> Messages[(n % Len(Messages)) + 1].text]
        fits(in) == Fits(in.level, in.mode, in.text)
    IN  SelectSeq([n \in 1..count |-> input(n - 1)], fits)

EncodedInputs ==
    Tabulate([k \in 1..Len(Inputs) |->
        [input |-> Inputs[k],
         grid |-> Encode(Inputs[k].level, Inputs[k].mask, Inputs[k].mode,
                         Inputs[k].text)]])

(***************************************************************************)
(* toTable on the symbols of the encoder                                   *)
(***************************************************************************)
Init ==
    /\ pc = "toTable"
    /\ returned = <<>>
    /\ IdleHtml
    /\ IdleLoop
    /\ error = "none"
    /\ rowLengths = [r \in 1..StandardSide |-> StandardSide]
    /\ \E k \in 1..Len(EncodedInputs) : originalQRCode = EncodedInputs[k].grid
    /\ L = Idle
    /\ version = Idle
    /\ IdleFormat
    /\ IdleGeom
    /\ IdleDecode
    /\ IdleBCH

Next ==
    \/ Validate
    \/ GetDataAreas
    \/ GetOriginalFormatBits
    \/ GetFormatBits
    \/ GetErrorCorrectionLevel
    \/ GetMaskGrid
    \/ GetDataCoordinates
    \/ GetMaskedQRCode
    \/ GetCodewords
    \/ GetEncodingMode
    \/ GetLength
    \/ GetDecodedData

Spec == Init /\ [][Next]_vars

\* the input whose symbol toTable was called on
Encoded == (CHOOSE e \in {EncodedInputs[k] : k \in 1..Len(EncodedInputs)} :
               e.grid = originalQRCode).input

(***************************************************************************)
(* C1.  For every version, error-correction level, mask and single-segment *)
(* message (Numeric, Alphanumeric or Byte) that fits the symbol, the grid  *)
(* produced by a standard QR encoder decodes through toTable to exactly    *)
(* the original message, level and mask index, with the mode and length of *)
(* the message.  Stated here of the version 1 symbols of Inputs.            *)
(***************************************************************************)
C1_RoundTrip ==
    /\ pc # "thrown"
    /\ pc = "done" =>
          /\ version = 1
          /\ errorCorrectionLevel = Encoded.level
          /\ maskIndex = Encoded.mask
          /\ encodingMode.name = Encoded.mode
          /\ length = Len(Encoded.text)
          /\ decodedData = Encoded.text

(***************************************************************************)
(* Symbols of every version and level at the call of getMaskedQRCode.     *)
(* Each module of the grid is a fixed function of its coordinates, so that *)
(* the codewords differ from one another.                                  *)
(***************************************************************************)
ModuleSample(r, c) == ((r * r) + (3 * c) + ((r * c) \div 5) + (c \div 3)) % 2

\* the table index of the format codeword of a level, with mask index 2
LevelSample(level) == (8 * indexOf(errorCorrectionLevels, level)) + 2

SampleGrid(l) ==
    [r \in 0..(l - 1) |-> [c \in 0..(l - 1) |-> ModuleSample(r, c)]]

InitInterleave ==
    /\ pc = "getMaskedQRCode"
    /\ returned = <<>>
    /\ IdleHtml
    /\ IdleLoop
    /\ error = "none"
    /\ \E l \in ValidSizes :
          /\ L = l
          /\ version = (l - 17) \div 4
          /\ rowLengths = [r \in 1..l |-> l]
          /\ nonDataAreas = getDataAreas(l, version, getFormatCoordinates(l))
          /\ dataCoordinates = getDataCoordinates(l, nonDataAreas)
    /\ \E level \in {"L", "M", "Q", "H"} :
          /\ bestOptionIndex = LevelSample(level)
          /\ formatBits = optionBits(BCH_options[bestOptionIndex + 1])
          /\ originalFormatBits = formatBits
          /\ errorCorrectionLevel = getErrorCorrectionLevelName(formatBits)
          /\ maskIndex = getMaskIndex(formatBits)
          /\ maskGrid = masks[maskIndex + 1]
          /\ originalQRCode =
                SampleGrid(L)
    /\ IdleDecode
    /\ IdleBCH

NextInterleave == GetMaskedQRCode \/ GetCodewords

SpecInterleave == InitInterleave /\ [][NextInterleave]_vars

\* the per-block numbers of data codewords of the symbol's version and level
DataBlocks == getNumCodewordsList(version)[errorCorrectionLevel]

\* the number of blocks with more than j codewords
BlocksLongerThan(blocks, j) ==
    Cardinality({b \in 1..Len(blocks) : blocks[b] > j})

\* entry k + 1: the sum over j < k of the number of blocks with more than j
\* codewords
RoundStarts(blocks) ==
    LET longer == Tabulate([j \in 1..mathMax(blocks) |->
                               BlocksLongerThan(blocks, j - 1)])
    IN  [k \in 1..mathMax(blocks) |-> sumRange(longer, 1, k - 1)]

\* the physical positions p(b, k) of the codewords of every block b (from 1),
\* k from 0 at entry 1
PhysicalPositions(blocks) ==
    LET starts == Tabulate(RoundStarts(blocks))
    IN  [b \in 1..Len(blocks) |->
            Tabulate([k \in 1..blocks[b] |->
                starts[k] + Cardinality({b2 \in 1..(b - 1) : blocks[b2] > k - 1})])]

\* the block-major position of codeword k of block b, from 0
BlockMajor(blocks, b, k) == blockStart(blocks, b) + k

(***************************************************************************)
(* C11.  For every version and level with per-block data-codeword counts   *)
(* s_0..s_(B-1) and n their sum, the logical codeword at block-major       *)
(* position (s_0 + ... + s_(b-1)) + k is taken from physical position      *)
(* p(b,k) = (sum over j < k of the number of blocks with more than j       *)
(* codewords) + (number of blocks b' < b with more than k codewords); this *)
(* index map is a bijection of 0..n-1 onto itself and is the identity when *)
(* the level has a single block.                                           *)
(***************************************************************************)
C11_InterleavingIsRoundRobin ==
    pc = "getEncodingMode" =>
        LET blocks == DataBlocks
            n == sum(blocks)
            p == Tabulate(PhysicalPositions(blocks))
            interleaving ==
                getInterleaving(blocks,
                                getMaxNumCodewords(getNumCodewordsList(version)))
        IN  /\ Len(codewords) = n
            /\ \A b \in 1..Len(blocks) : \A k \in 0..(blocks[b] - 1) :
                  LET logical == BlockMajor(blocks, b, k)
                  IN  /\ interleaving[logical + 1] = p[b][k + 1]
                      /\ codewords[logical + 1]
                            = interleavedCodeword(dataCoordinates, maskedQRCode,
                                                  p[b][k + 1])
                      /\ Len(blocks) = 1 => p[b][k + 1] = logical
            /\ {p[b][k] : b \in 1..Len(blocks), k \in 1..mathMin(blocks)}
                  \subseteq 0..(n - 1)
            /\ Cardinality(UNION {{p[b][k] : k \in 1..blocks[b]} :
                                     b \in 1..Len(blocks)}) = n
            /\ UNION {{p[b][k] : k \in 1..blocks[b]} : b \in 1..Len(blocks)}
                  = 0..(n - 1)

C11_Witness ==
    /\ pc = "getEncodingMode"
    /\ version = 5
    /\ errorCorrectionLevel = "Q"
    /\ Len(codewords) = 62
    /\ codewords[16] = interleavedCodeword(dataCoordinates, maskedQRCode, 1)
    /\ codewords[2] = interleavedCodeword(dataCoordinates, maskedQRCode, 4)

(***************************************************************************)
(* toTable from getEncodingMode on, on the data codewords of a symbol of   *)
(* version v and level level whose stream holds a four-bit mode indicator, *)
(* a length field and a payload.                                           *)
(***************************************************************************)
\* the number of data codewords of a version and level
DataCodewords(v, level) == sum(getNumCodewordsList(v)[level])

\* the four bits of a mode indicator
IndicatorBits(nibble) ==
    <<(nibble \div 8) % 2, (nibble \div 4) % 2, (nibble \div 2) % 2, nibble % 2>>

\* payload bit p: all light, all dark, mixed, the bytes 72 and 105 in turn
PayloadSample(seed, p) ==
    CASE seed = 0 -> 0
      [] seed = 1 -> 1
      [] seed = 2 -> ((p * p) + (p \div 3) + (p \div 7)) % 2
      [] OTHER -> (((IF (p \div 8) % 2 = 0 THEN 72 ELSE 105)
                      \div Pow2(7 - (p % 8))) % 2)

\* bit p of the stream: the indicator, the length field of the width that the
\* indicator and the version give, most significant bit first, the payload
StreamSample(v, nibble, len, seed, p) ==
    LET w == getEncodingModes(v, IndicatorBits(nibble)).lengthBlockSize
    IN  IF p < 4 THEN IndicatorBits(nibble)[p + 1]
        ELSE IF p < 4 + w THEN (len \div Pow2(w - 1 - (p - 4))) % 2
        ELSE PayloadSample(seed, p - 4 - w)

CodewordsSample(v, level, nibble, len, seed) ==
    Tabulate([i \in 1..DataCodewords(v, level) |->
        Tabulate([j \in 1..8 |->
            StreamSample(v, nibble, len, seed, (8 * (i - 1)) + j - 1)])])

\* the number of payload bytes that the data codewords of a Byte symbol hold
ByteCapacity(v, level) ==
    ((8 * DataCodewords(v, level)) - 4 - (IF v <= 9 THEN 8 ELSE 16)) \div 8

\* the samples: every indicator on version 1 symbols with short messages;
\* the three modes at the versions next to the changes of the width of the
\* length field; Byte symbols of every version and level, short and full;
\* symbols whose declared length exceeds their data codewords
ModeSamples ==
    {<<1, level, nibble, len, seed>> :
        level \in {"L", "H"}, nibble \in 0..15, len \in {0, 1, 2, 3, 5},
        seed \in 0..3}

WidthSamples ==
    {<<v, "M", nibble, len, 2>> :
        v \in {9, 10, 26, 27, 40}, nibble \in {1, 2, 4}, len \in {3, 170, 255}}
    \cup {<<v, "M", nibble, len, 2>> :
        v \in {10, 26, 27, 40}, nibble \in {1, 2, 4}, len \in {1365, 2047}}
    \cup {<<v, "M", 1, len, 2>> : v \in {27, 40}, len \in {10923, 16383}}
    \cup {<<v, "M", 4, len, 2>> : v \in {10, 27}, len \in {43691, 65535}}

ByteSamples ==
    {<<v, level, 4, 2, 3>> : v \in 1..40, level \in {"L", "M", "Q", "H"}}
    \cup {<<v, level, 4, ByteCapacity(v, level), 2>> :
              v \in 1..40, level \in {"L", "M", "Q", "H"}}

ShortSamples ==
    {<<1, "H", nibble, len, seed>> :
        nibble \in {1, 2, 4}, len \in {8, 11, 12, 17, 18, 19, 21, 22},
        seed \in {1, 3}}

DecodeSamples == ModeSamples \cup WidthSamples \cup ByteSamples \cup ShortSamples

InitDecode ==
    /\ pc = "getEncodingMode"
    /\ returned = <<>>
    /\ IdleHtml
    /\ IdleLoop
    /\ error = "none"
    /\ \E sample \in DecodeSamples :
          /\ version = sample[1]
          /\ errorCorrectionLevel = sample[2]
          /\ codewords = CodewordsSample(sample[1], sample[2], sample[3],
                                         sample[4], sample[5])
    /\ L = 17 + (4 * version)
    /\ rowLengths = [r \in 1..L |-> L]
    /\ originalQRCode = EmptyGrid
    /\ maskedQRCode = EmptyGrid
    /\ originalFormatBits = Idle
    /\ bestOptionIndex = Idle
    /\ formatBits = Idle
    /\ maskIndex = Idle
    /\ maskGrid = Idle
    /\ IdleGeom
    /\ encodingMode = Idle
    /\ length = Idle
    /\ decodedData = Idle
    /\ IdleBCH

NextDecode == GetEncodingMode \/ GetLength \/ GetDecodedData

SpecDecode == InitDecode /\ [][NextDecode]_vars

\* bit p of the codeword stream: bit p mod 8 of logical codeword floor(p / 8)
StreamBit(p) == codewords[(p \div 8) + 1][(p % 8) + 1]

\* the big-endian unsigned value of a sequence of bits
RECURSIVE BigEndian(_)
BigEndian(bits) ==
    IF bits = <<>> THEN 0
    ELSE (Head(bits) * Pow2(Len(bits) - 1)) + BigEndian(Tail(bits))

\* the value of the width stream bits from position from on
StreamValue(from, width) ==
    BigEndian([k \in 1..width |-> StreamBit(from + k - 1)])

ModeKnown == pc \in {"getLength", "getDecodedData", "done"}
             \/ (pc = "thrown" /\ error = "TypeError")

LengthKnown == pc \in {"getDecodedData", "done"}
               \/ (pc = "thrown" /\ error = "TypeError")

(***************************************************************************)
(* C12.  The encoding mode is decided by the first four bits of logical    *)
(* codeword 0: 0001 gives Numeric, 0010 Alphanumeric, 0100 Byte; for each  *)
(* of the 13 other four-bit values the mode is Unknown, no error is        *)
(* raised, and the decoded message is the empty string whatever the rest   *)
(* of the codewords hold.                                                  *)
(***************************************************************************)
C12_ModeOfFirstFourBits ==
    /\ ModeKnown =>
          encodingMode.name =
              CASE StreamValue(0, 4) = 1 -> "Numeric"
                [] StreamValue(0, 4) = 2 -> "Alphanumeric"
                [] StreamValue(0, 4) = 4 -> "Byte"
                [] OTHER -> "Unknown"
    /\ (ModeKnown /\ StreamValue(0, 4) \notin {1, 2, 4}) =>
          /\ pc # "thrown"
          /\ error = "none"
          /\ pc = "done" => decodedData = <<>>

C12_Witness ==
    /\ pc = "done"
    /\ StreamValue(0, 4) = 8
    /\ StreamValue(4, 8) = 5
    /\ StreamBit(12) = 1
    /\ encodingMode.name = "Unknown"
    /\ decodedData = <<>>


\* the width of the length field of a mode at a version
LengthWidth(name, v) ==
    CASE name = "Numeric" -> IF v <= 9 THEN 10 ELSE IF v <= 26 THEN 12 ELSE 14
      [] name = "Alphanumeric" -> IF v <= 9 THEN 9 ELSE IF v <= 26 THEN 11 ELSE 13
      [] name = "Byte" -> IF v <= 9 THEN 8 ELSE IF v <= 26 THEN 16 ELSE 16

(***************************************************************************)
(* C13.  The declared length is the big-endian unsigned value of the       *)
(* codeword-stream bits at positions 4 .. 4+w-1 (bit p being bit p mod 8   *)
(* of logical codeword floor(p/8), most significant first), where w is 10, *)
(* 12 or 14 for Numeric, 9, 11 or 13 for Alphanumeric and 8, 16 or 16 for  *)
(* Byte at versions 1..9, 10..26 and 27..40 respectively.                  *)
(***************************************************************************)
C13_LengthIsBigEndianField ==
    (LengthKnown /\ encodingMode.name \in {"Numeric", "Alphanumeric", "Byte"}) =>
        /\ encodingMode.lengthBlockSize = LengthWidth(encodingMode.name, version)
        /\ length = StreamValue(4, LengthWidth(encodingMode.name, version))

C13_Witness ==
    /\ pc = "getDecodedData"
    /\ version = 27
    /\ encodingMode.name = "Numeric"
    /\ StreamValue(4, 14) = 10923
    /\ length = 10923


\* getDecodedData has run, to its end or to an error
Decoded == pc = "done" \/ (pc = "thrown" /\ error = "TypeError")

(***************************************************************************)
(* C14.  In Byte mode, for every version and level, whenever the data      *)
(* codewords hold all 8*length payload bits, the decoded message has       *)
(* exactly `length` code points, the i-th (from 0) being the unsigned      *)
(* value of stream bits 4+w+8i .. 4+w+8i+7 with w the length-field width;  *)
(* e.g. a version-3 symbol carrying bytes [72,105] gives length 2 and      *)
(* message "Hi".                                                           *)
(***************************************************************************)
C14_ByteMessage ==
    (/\ Decoded
     /\ encodingMode.name = "Byte"
     /\ 4 + LengthWidth("Byte", version) + (8 * length) <= 8 * Len(codewords)) =>
        /\ pc = "done"
        /\ Len(decodedData) = length
        /\ \A i \in 0..(length - 1) :
              decodedData[i + 1]
                  = StreamValue(4 + LengthWidth("Byte", version) + (8 * i), 8)


\* the first payload bit of the stream
PayloadStart == 4 + LengthWidth(encodingMode.name, version)

\* the value of the g-th (from 0) 11-bit group and of the final 6-bit group
PairValue(g) == StreamValue(PayloadStart + (11 * g), 11)

FinalCharValue == StreamValue(PayloadStart + (11 * (length \div 2)), 6)

\* table[n] of "0123456789ABCDEFGHIJKLMNOPQRSTUVWXYZ $%*+-./:"
TableChar(n) == alphanumericTable[n + 1]

\* the data codewords hold the groups of an Alphanumeric message of the
\* declared length, and every group indexes the table
AlphanumericPayloadHeld ==
    /\ PayloadStart + (11 * (length \div 2)) + (6 * (length % 2))
          <= 8 * Len(codewords)
    /\ \A g \in 0..((length \div 2) - 1) : PairValue(g) \div 45 < 45
    /\ length % 2 = 1 => FinalCharValue < 45

AlphanumericMessage ==
    flatten([g \in 1..(length \div 2) |->
                <<TableChar(PairValue(g - 1) \div 45),
                  TableChar(PairValue(g - 1) % 45)>>],
            1, length \div 2)
    \o (IF length % 2 = 1 THEN <<TableChar(FinalCharValue)>> ELSE <<>>)

(***************************************************************************)
(* C15.  In Alphanumeric mode with enough data codewords, the message is   *)
(* the concatenation, for each of the floor(length/2) consecutive 11-bit   *)
(* groups that follow the length field, of table[floor(value/45)] and      *)
(* table[value mod 45], followed when length is odd by table[value] of one *)
(* final 6-bit group (the next 6 stream bits), with table =                *)
(* "0123456789ABCDEFGHIJKLMNOPQRSTUVWXYZ $%*+-./:".                        *)
(***************************************************************************)
C15_AlphanumericMessage ==
    (/\ Decoded
     /\ encodingMode.name = "Alphanumeric"
     /\ AlphanumericPayloadHeld) =>
        /\ pc = "done"
        /\ decodedData = AlphanumericMessage

\* "C*D96": the groups 579, 594 and 6
C15_Witness ==
    /\ pc = "done"
    /\ encodingMode.name = "Alphanumeric"
    /\ length = 5
    /\ AlphanumericPayloadHeld
    /\ PairValue(0) = 579
    /\ decodedData = <<67, 42, 68, 57, 54>>


\* the value of the g-th (from 0) 10-bit group and of the final group of
\* width bits
TripleValue(g) == StreamValue(PayloadStart + (10 * g), 10)

FinalDigitsValue(width) == StreamValue(PayloadStart + (10 * (length \div 3)), width)

\* the decimal digits of n, count of them, leading zeros kept
Digits(n, count) ==
    [d \in 1..count |-> 48 + ((n \div (10 ^ (count - d))) % 10)]

\* the data codewords hold the groups of a Numeric message of the declared
\* length, and every group is the value of its number of digits
NumericPayloadHeld ==
    /\ PayloadStart + (10 * (length \div 3))
          + (CASE length % 3 = 2 -> 7 [] length % 3 = 1 -> 4 [] OTHER -> 0)
          <= 8 * Len(codewords)
    /\ \A g \in 0..((length \div 3) - 1) : TripleValue(g) < 1000
    /\ length % 3 = 2 => FinalDigitsValue(7) < 100
    /\ length % 3 = 1 => FinalDigitsValue(4) < 10

NumericMessage ==
    flatten([g \in 1..(length \div 3) |-> Digits(TripleValue(g - 1), 3)],
            1, length \div 3)
    \o (CASE length % 3 = 2 -> Digits(FinalDigitsValue(7), 2)
          [] length % 3 = 1 -> Digits(FinalDigitsValue(4), 1)
          [] OTHER -> <<>>)

(***************************************************************************)
(* C16.  In Numeric mode with enough data codewords, each of the           *)
(* floor(length/3) 10-bit groups is output as three decimal digits with    *)
(* leading zeros kept, a final 7-bit group (when length mod 3 = 2) as two  *)
(* digits and a final 4-bit group (when length mod 3 = 1) as one digit, so *)
(* the decoded message has exactly `length` characters.                    *)
(***************************************************************************)
C16_NumericMessage ==
    (/\ Decoded
     /\ encodingMode.name = "Numeric"
     /\ NumericPayloadHeld) =>
        /\ pc = "done"
        /\ decodedData = NumericMessage
        /\ Len(decodedData) = length


\* the number of payload bits that a declared length implies
PayloadBits(name, len) ==
    CASE name = "Byte" -> 8 * len
      [] name = "Alphanumeric" -> (11 * (len \div 2)) + (6 * (len % 2))
      [] name = "Numeric" ->
            (10 * (len \div 3))
            + (CASE len % 3 = 2 -> 7 [] len % 3 = 1 -> 4 [] OTHER -> 0)
      [] OTHER -> 0

\* the data codewords end before the payload that the declared length implies
StreamRunsShort ==
    PayloadStart + PayloadBits(encodingMode.name, length) > 8 * Len(codewords)

\* the number of whole Byte units that the data codewords hold
ByteUnitsHeld == ((8 * Len(codewords)) - PayloadStart) \div 8

(***************************************************************************)
(* C17.  If the data codewords end before the payload that the declared    *)
(* length implies (for example a version-1 level-H grid in Byte mode       *)
(* declaring length 17), toTable raises no error: decoding stops at the    *)
(* end of the codeword stream and the message holds only the units that    *)
(* were read from it.                                                      *)
(***************************************************************************)
C17_ShortStreamRaisesNoError ==
    (/\ Decoded
     /\ encodingMode.name \in {"Numeric", "Alphanumeric", "Byte"}
     /\ StreamRunsShort) =>
        /\ pc = "done"
        /\ error = "none"
        /\ encodingMode.name = "Byte" =>
              /\ Len(decodedData) = ByteUnitsHeld
              /\ \A i \in 0..(ByteUnitsHeld - 1) :
                    decodedData[i + 1] = StreamValue(PayloadStart + (8 * i), 8)


\* getCodewords has run, to its end or to an error
CodewordsAssembled == pc = "getEncodingMode" \/ pc = "thrown"

(***************************************************************************)
(* C18 as stated.  Whenever the number of data coordinates produced by the *)
(* zigzag scan differs from 8 times the version's total codeword count,    *)
(* toTable fails with an error instead of assembling codewords from a      *)
(* truncated or over-long sequence.                                        *)
(***************************************************************************)
C18_CountMismatchFails ==
    (/\ CodewordsAssembled
     /\ Len(dataCoordinates) # 8 * TotalCodewords[version]) =>
        /\ pc = "thrown"
        /\ error # "none"

(***************************************************************************)
(* C18 as amended.  The number of data coordinates produced by the zigzag  *)
(* scan is 8 times the version's total codeword count plus the version's   *)
(* remainder bits (7 for versions 2..6, 3 for 14..20 and 28..34, 4 for     *)
(* 21..27), so it differs from 8 times the total at those versions;        *)
(* toTable makes no check of it and raises no error: getCodewords          *)
(* assembles the data codewords of the level from the first 8 times their  *)
(* number coordinates and reads no other one.                              *)
(***************************************************************************)
C18_OverlongSequenceAssembled ==
    CodewordsAssembled =>
        /\ pc = "getEncodingMode"
        /\ error = "none"
        /\ Len(dataCoordinates)
              = (8 * TotalCodewords[version]) + RemainderBits(version)
        /\ Len(codewords) = DataCodewords(version, errorCorrectionLevel)
        /\ 8 * Len(codewords) <= 8 * TotalCodewords[version]
        /\ \A i \in 1..Len(codewords) : Len(codewords[i]) = 8

C18_Witness ==
    /\ pc = "getEncodingMode"
    /\ version = 2
    /\ errorCorrectionLevel = "L"
    /\ Len(dataCoordinates) = 359
    /\ TotalCodewords[version] = 44
    /\ Len(codewords) = 34
    /\ error = "none"


(***************************************************************************)
(* Calls of toTable one after the other on the same grid.  A call leaves   *)
(* in the variables whatever it assigned; the next call starts from them.  *)
(***************************************************************************)
MaxCalls == 2

\* toTable returns its table or throws: what the caller gets
ToTableReturns ==
    /\ pc \in {"done", "thrown"}
    /\ returned' = Append(returned,
                          [error |-> error,
                           table |-> IF pc = "done"
                                     THEN <<L, version, formatVars, geomVars,
                                            decodeVars>>
                                     ELSE Idle])
    /\ pc' = "returned"
    /\ UNCHANGED <<htmlVars, loopVars, error, inputVars, formatVars, geomVars, decodeVars,
                   bchVars>>

\* the caller calls toTable again
CallToTable ==
    /\ pc = "returned"
    /\ Len(returned) < MaxCalls
    /\ pc' = "toTable"
    /\ error' = "none"
    /\ UNCHANGED <<returned, htmlVars, loopVars, inputVars, formatVars, geomVars, decodeVars, bchVars>>

\* a version 1 symbol of level H whose Byte segment declares 17 bytes
ShortSymbol(p) ==
    EncodeBits("H", p,
               StandardModeIndicator["Byte"] \o ToBits(17, 8)
               \o [k \in 1..60 |-> PayloadSample(3, k - 1)])

\* grids that toTable decodes, grids whose decoding fails, grids of an
\* invalid height and grids that are not square
InitCalls ==
    /\ pc = "toTable"
    /\ returned = <<>>
    /\ IdleHtml
    /\ IdleLoop
    /\ error = "none"
    /\ \/ /\ rowLengths = [r \in 1..StandardSide |-> StandardSide]
          /\ \/ \E k \in 1..Len(EncodedInputs) :
                   originalQRCode = EncodedInputs[k].grid
             \/ \E p \in 0..7 : originalQRCode = ShortSymbol(p)
       \/ /\ \E n \in {0, 20, 22, 23} : rowLengths = [r \in 1..n |-> n]
          /\ originalQRCode = EmptyGrid
       \/ /\ \E n \in {20, 22} :
                rowLengths = [r \in 1..StandardSide |->
                                 IF r = 2 THEN n ELSE StandardSide]
          /\ \E k \in 1..Len(EncodedInputs) :
                originalQRCode = EncodedInputs[k].grid
    /\ L = Idle
    /\ version = Idle
    /\ IdleFormat
    /\ IdleGeom
    /\ IdleDecode
    /\ IdleBCH

NextCalls == Next \/ ToTableReturns \/ CallToTable

SpecCalls == InitCalls /\ [][NextCalls]_vars

(***************************************************************************)
(* C19.  toTable never modifies its input grid (every row and every bit is *)
(* the same after the call as before, also when the call fails), and two   *)
(* calls on equal grids return equal results: nothing is carried from one  *)
(* decode to the next.                                                     *)
(***************************************************************************)
C19_InputKeptAndResultsEqual ==
    /\ [][/\ originalQRCode' = originalQRCode
          /\ rowLengths' = rowLengths]_vars
    /\ [](\A i, j \in 1..Len(returned) : returned[i] = returned[j])

C19_Witness ==
    /\ pc = "returned"
    /\ Len(returned) = 2
    /\ returned[1].error = "TypeError"
    /\ returned[2].error = "TypeError"
    /\ hasCell(originalQRCode, <<20, 20>>)
    /\ maskedQRCode[20][20] # originalQRCode[20][20]


(***************************************************************************)
(* toHtml (src/google-sheet-html.ts), the replacement of the placeholders  *)
(* of the formula of one cell.  A formula is the sequence of its           *)
(* placeholders %REF% and %REF[dr][dc]% and of the texts between them; a   *)
(* text holds no placeholder (the only other % of a formula of toTable is  *)
(* the one of the alphanumeric table, which a star follows).  The numbers  *)
(* of a placeholder are written in decimal by the template literals.       *)
(***************************************************************************)
Text == [kind |-> "text", ref |-> "", dr |-> 0, dc |-> 0]

\* %REF%
Placeholder(ref) == [kind |-> "%REF%", ref |-> ref, dr |-> 0, dc |-> 0]

\* %REF[dr][dc]%
OffsetPlaceholder(ref, dr, dc) ==
    [kind |-> "%REF[dr][dc]%", ref |-> ref, dr |-> dr, dc |-> dc]

\* R[dr]C[dc]
Relative(dr, dc) == [kind |-> "R[dr]C[dc]", ref |-> "", dr |-> dr, dc |-> dc]

\* numberRegex = "-?[0-9]{1,3}" matches the decimal text of n
numberRegex(n) ==
    Len(toString10(IF n < 0 THEN 0 - n ELSE n)) \in 1..3

\* the index of the first entry of f that holds, 0 when none does
firstMatch(f, holds(_)) ==
    IF \E k \in 1..Len(f) : holds(f[k])
    THEN CHOOSE k \in 1..Len(f) :
            holds(f[k]) /\ \A j \in 1..(k - 1) : ~holds(f[j])
    ELSE 0

\* formula.match(`%(${refRegex})%`)
matchRef(f) ==
    LET holds(token) == token.kind = "%REF%"
    IN  firstMatch(f, holds)

\* formula.match(`%(${refRegex})\\[(${numberRegex})]\\[(${numberRegex})]%`)
matchOffset(f) ==
    LET holds(token) == /\ token.kind = "%REF[dr][dc]%"
                        /\ numberRegex(token.dr)
                        /\ numberRegex(token.dc)
    IN  firstMatch(f, holds)

\* formula.replace(text of entry k, replacement): the first occurrence of the
\* text of entry k is entry k
replace(f, k, replacement) == [f EXCEPT ![k] = replacement]

\* one iteration of while (formula) { ... }, or its end
ToHtmlReplace ==
    /\ pc = "toHtml"
    /\ LET first == matchRef(formula)
           second == matchOffset(formula)
       IN  IF formula = <<>>
           THEN /\ pc' = "toHtml_td"
                /\ UNCHANGED formula
           ELSE IF first # 0 /\ formula[first].ref \in DOMAIN refs
           THEN /\ formula' =
                      replace(formula, first,
                              Relative(refs[formula[first].ref][1] - cell_r,
                                       refs[formula[first].ref][2] - cell_c))
                /\ UNCHANGED pc
           ELSE IF second # 0 /\ formula[second].ref \in DOMAIN refs
           THEN /\ formula' =
                      replace(formula, second,
                              Relative(refs[formula[second].ref][1] - cell_r
                                          + formula[second].dr,
                                       refs[formula[second].ref][2] - cell_c
                                          + formula[second].dc))
                /\ UNCHANGED pc
           ELSE /\ pc' = "toHtml_td"
                /\ UNCHANGED formula
    /\ UNCHANGED <<error, inputVars, formatVars, geomVars, decodeVars, bchVars,
                   returned, loopVars, table, refs, cell_r, cell_c, cell_formula>>

(***************************************************************************)
(* The formulas of toTable whose placeholders carry the largest offsets,   *)
(* for a version v: the ones of the codeword tables (src/qr.ts:533,        *)
(* 603-609), of the data blocks (771-787, 822-836) and of the final        *)
(* message (848).                                                          *)
(***************************************************************************)
RefNames ==
    <<"ORIGINAL_QR_CODE", "ORIGINAL_FORMAT_BITS", "BEST_OPTION_INDEX",
      "FORMAT_BITS", "ERROR_CORRECTION_LEVEL_BITS", "ERROR_CORRECTION_LEVEL",
      "MASK_BITS", "MASK_INDEX", "MASK_GRID", "MASKED_QR_CODE", "NUM_CODEWORDS",
      "INTERLEAVED_CODEWORDS", "CODEWORDS", "ENCODING_MODE_BITS",
      "ENCODING_MODE", "LENGTH_BLOCK_SIZE", "DATA_BLOCK_SIZE", "LENGTH_BITS",
      "LENGTH", "DATA_BLOCKS", "DECODED_BLOCKS">>

\* two placements of the cells that carry the refs
RefLayout(n) ==
    [name \in {RefNames[k] : k \in 1..Len(RefNames)} |->
        IF n = 1
        THEN <<3 + (7 * indexOf(RefNames, name)), 2 + (11 * indexOf(RefNames, name))>>
        ELSE <<1 + (200 * indexOf(RefNames, name)), 5>>]

\* src/qr.ts:533, at the module of the last row and column
MaskedModuleFormula(v) ==
    <<Text, Placeholder("NUM_CODEWORDS"), Text,
      OffsetPlaceholder("MASKED_QR_CODE", 16 + (4 * v), 16 + (4 * v)), Text>>

\* src/qr.ts:603-609
UninterleavedFormula(v) ==
    <<Text, Placeholder("ERROR_CORRECTION_LEVEL"), Text,
      Placeholder("NUM_CODEWORDS"), Text, Placeholder("INTERLEAVED_CODEWORDS"),
      Text,
      OffsetPlaceholder("INTERLEAVED_CODEWORDS",
                        getMaxNumCodewords(getNumCodewordsList(v)) - 1, 7),
      Text>>

\* the placeholder of the module at position n of the codewords
CodewordPlaceholder(n) ==
    OffsetPlaceholder("CODEWORDS", codewordPos(n)[1] - 1, codewordPos(n)[2] - 1)

\* src/qr.ts:778-787, of bit j of data block i
DataBlockFormula(v, i, j) ==
    <<Text, Placeholder("ENCODING_MODE"), Text, Placeholder("LENGTH"), Text,
      Placeholder("LENGTH"), Text,
      CodewordPlaceholder(4 + getEncodingModes(v, <<0, 0, 1, 0>>).lengthBlockSize
                          + (11 * i) + j),
      Text, Placeholder("LENGTH"), Text,
      CodewordPlaceholder(4 + getEncodingModes(v, <<0, 1, 0, 0>>).lengthBlockSize
                          + (8 * i) + j),
      Text, Placeholder("LENGTH"), Text, Placeholder("LENGTH"), Text,
      Placeholder("LENGTH"), Text,
      CodewordPlaceholder(4 + getEncodingModes(v, <<0, 0, 0, 1>>).lengthBlockSize
                          + (10 * i) + j),
      Text>>

\* src/qr.ts:822-836, of data block i
DecodedBlockFormula(i) ==
    <<Text, OffsetPlaceholder("DATA_BLOCKS", i, 0), Text,
      OffsetPlaceholder("DATA_BLOCKS", i, maxDataBlockSize), Text,
      Placeholder("DATA_BLOCK_SIZE"), Text, Placeholder("ENCODING_MODE"), Text,
      Placeholder("LENGTH"), Text, Placeholder("LENGTH"), Text,
      Placeholder("LENGTH"), Text, Placeholder("LENGTH"), Text,
      Placeholder("LENGTH"), Text, Placeholder("LENGTH"), Text>>

\* src/qr.ts:848
FinalMessageFormula(v) ==
    <<Text, Placeholder("DECODED_BLOCKS"), Text,
      OffsetPlaceholder("DECODED_BLOCKS", maxNumBlocks(17 + (4 * v)), 0), Text>>

Formulas(v) ==
    {<<>>, MaskedModuleFormula(v), UninterleavedFormula(v), FinalMessageFormula(v)}
    \cup {DataBlockFormula(v, i, j) :
              i \in {0, maxNumBlocks(17 + (4 * v)) - 1}, j \in {0, 12}}
    \cup {DecodedBlockFormula(i) : i \in {0, maxNumBlocks(17 + (4 * v)) - 1}}

InitHtml ==
    /\ pc = "toHtml"
    /\ returned = <<>>
    /\ error = "none"
    /\ \E v \in 1..40 :
          /\ version = v
          /\ cell_formula \in Formulas(v)
    /\ L = 17 + (4 * version)
    /\ formula = cell_formula
    /\ table = Idle
    /\ IdleLoop
    /\ \E n \in 1..2 : refs = RefLayout(n)
    /\ \E cell \in {<<0, 0>>, <<47, 310>>} :
          /\ cell_r = cell[1]
          /\ cell_c = cell[2]
    /\ rowLengths = [r \in 1..L |-> L]
    /\ originalQRCode = EmptyGrid
    /\ IdleFormat
    /\ IdleGeom
    /\ IdleDecode
    /\ IdleBCH

NextHtml == ToHtmlReplace

SpecHtml == InitHtml /\ [][NextHtml]_vars

\* what the claim makes of an entry of cell.formula
Replaced(token) ==
    IF token.kind = "%REF%" /\ token.ref \in DOMAIN refs
    THEN Relative(refs[token.ref][1] - cell_r, refs[token.ref][2] - cell_c)
    ELSE IF token.kind = "%REF[dr][dc]%" /\ token.ref \in DOMAIN refs
    THEN Relative(refs[token.ref][1] - cell_r + token.dr,
                  refs[token.ref][2] - cell_c + token.dc)
    ELSE token

(***************************************************************************)
(* C20.  For the table that toTable builds for every version 1..40, toHtml *)
(* replaces every placeholder %REF% by R[refRow - row]C[refCol - col] and  *)
(* every placeholder %REF[dr][dc]% by R[refRow - row + dr]C[refCol - col + *)
(* dc], for every offset pair toTable writes (row offsets run up to the    *)
(* number of data codewords and up to floor((L*L - 225)/12)); no           *)
(* placeholder naming a defined ref remains in an emitted formula.         *)
(***************************************************************************)
C20_EveryPlaceholderReplaced ==
    pc = "toHtml_td" =>
        /\ Len(formula) = Len(cell_formula)
        /\ \A k \in 1..Len(formula) :
              /\ formula[k] = Replaced(cell_formula[k])
              /\ ~(/\ formula[k].kind \in {"%REF%", "%REF[dr][dc]%"}
                   /\ formula[k].ref \in DOMAIN refs)


(***************************************************************************)
(* toHtml, the loop that collects the refs of the table                    *)
(* (src/google-sheet-html.ts:53-63).  Here a ref is the sequence of its    *)
(* characters, <<>> for a cell that carries none (cell.ref undefined or    *)
(* empty, both falsy), and table[r + 1][c + 1] is the ref of cell (r, c).  *)
(***************************************************************************)
UppercaseLetters ==
    {"A", "B", "C", "D", "E", "F", "G", "H", "I", "J", "K", "L", "M", "N",
     "O", "P", "Q", "R", "S", "T", "U", "V", "W", "X", "Y", "Z"}

Digits09 == {"0", "1", "2", "3", "4", "5", "6", "7", "8", "9"}

\* the character class [A-Z0-9_] of refRegex
refRegexClass == UppercaseLetters \cup Digits09 \cup {"_"}

\* cell.ref.match(refRegex), refRegex = "[A-Z0-9_]+"
refRegex(ref) == \E k \in 1..Len(ref) : ref[k] \in refRegexClass

\* the cell the forEach callbacks reach after cell (r, c): the next one of
\* row r, else the first one of the next row that has cells; <<>> at the end
nextCell(t, r, c) ==
    IF c + 1 < Len(t[r + 1])
    THEN <<r, c + 1>>
    ELSE IF \E q \in (r + 1)..(Len(t) - 1) : Len(t[q + 1]) > 0
    THEN <<CHOOSE q \in (r + 1)..(Len(t) - 1) :
               /\ Len(t[q + 1]) > 0
               /\ \A p \in (r + 1)..(q - 1) : Len(t[p + 1]) = 0,
           0>>
    ELSE <<>>

\* refs.set(cell.ref, [r, c])
refsSet(map, ref, r, c) ==
    [key \in DOMAIN map \cup {ref} |-> IF key = ref THEN <<r, c>> ELSE map[key]]

\* one call of the callback of row.forEach, and the move to the next cell
ToHtmlForEach ==
    /\ pc = "toHtml_forEach"
    /\ LET ref == table[cell_r + 1][cell_c + 1]
           next == nextCell(table, cell_r, cell_c)
       IN  IF ref # <<>> /\ ~refRegex(ref)
           THEN /\ error' = "Ref must match pattern"
                /\ pc' = "thrown"
                /\ UNCHANGED <<refs, cell_r, cell_c>>
           ELSE IF ref # <<>> /\ ref \in DOMAIN refs
           THEN /\ error' = "Duplicate ref found in table"
                /\ pc' = "thrown"
                /\ UNCHANGED <<refs, cell_r, cell_c>>
           ELSE /\ refs' = IF ref # <<>>
                           THEN refsSet(refs, ref, cell_r, cell_c)
                           ELSE refs
                /\ IF next = <<>>
                   THEN /\ pc' = "toHtml_map"
                        /\ UNCHANGED <<cell_r, cell_c>>
                   ELSE /\ cell_r' = next[1]
                        /\ cell_c' = next[2]
                        /\ UNCHANGED pc
                /\ UNCHANGED error
    /\ UNCHANGED <<inputVars, formatVars, geomVars, decodeVars, bchVars,
                   returned, loopVars, table, cell_formula, formula>>

\* refs of cells: none, two valid ones, one with no character of the class,
\* two with characters of the class and others
RefSamples ==
    {<<>>, <<"A">>, <<"B", "_", "1">>, <<"a">>, <<"A", "-", "B">>,
     <<"x", "9">>}

\* the row lengths of the tables
TableShapes == {<<2>>, <<1, 2>>, <<2, 0, 1>>, <<2, 2>>}

InitRefs ==
    /\ pc = "toHtml_forEach"
    /\ returned = <<>>
    /\ error = "none"
    /\ \E shape \in TableShapes :
          table \in {t \in [1..Len(shape) -> UNION {[1..n -> RefSamples] : n \in 0..2}] :
                        \A r \in 1..Len(shape) : Len(t[r]) = shape[r]}
    /\ refs = <<>>
    /\ IdleLoop
    /\ cell_r = 0
    /\ cell_c = 0
    /\ cell_formula = Idle
    /\ formula = Idle
    /\ IdleInput
    /\ IdleFormat
    /\ IdleGeom
    /\ IdleDecode
    /\ IdleBCH

NextRefs == ToHtmlForEach

SpecRefs == InitRefs /\ [][NextRefs]_vars

\* the cells of the table
TableCells ==
    {cell \in (0..(Len(table) - 1)) \X (0..2) : cell[2] < Len(table[cell[1] + 1])}

RefOf(cell) == table[cell[1] + 1][cell[2] + 1]

\* some ref holds a character that is no uppercase letter, digit or underscore
SomeRefIllFormed ==
    \E cell \in TableCells :
        \E k \in 1..Len(RefOf(cell)) : RefOf(cell)[k] \notin refRegexClass

\* two cells carry the same ref
SomeRefTwice ==
    \E a, b \in TableCells :
        a # b /\ RefOf(a) # <<>> /\ RefOf(a) = RefOf(b)

ForEachDone == pc \in {"toHtml_map", "thrown"}

(***************************************************************************)
(* C21.  toHtml raises an error for every table in which some cell's ref   *)
(* contains a character other than an uppercase letter, a digit or an      *)
(* underscore, and for every table in which two cells carry the same ref.  *)
(***************************************************************************)
C21_IllFormedOrRepeatedRefFails ==
    (ForEachDone /\ (SomeRefIllFormed \/ SomeRefTwice)) => pc = "thrown"


(***************************************************************************)
(* The function patterns of a symbol of side l, version v, written from    *)
(* their description: what C22 says getDataAreas marks as non-data.        *)
(***************************************************************************)
\* the three 8x8 corner blocks
CornerBlocks(l) ==
    ((0..7) \X (0..7)) \cup ((0..7) \X ((l - 8)..(l - 1)))
    \cup (((l - 8)..(l - 1)) \X (0..7))

\* row 6 and column 6 between the corner blocks
TimingModules(l) == ({6} \X (8..(l - 9))) \cup ((8..(l - 9)) \X {6})

\* the pairs of alignment coordinates that fall outside the corner blocks
AlignmentCentres(l, v) ==
    LET coordinates == alignmentCoordinates(l, v)
        values == {coordinates[k] : k \in 1..Len(coordinates)}
    IN  (values \X values) \ CornerBlocks(l)

\* the 5x5 blocks around the centres
AlignmentBlocks(l, v) ==
    UNION {((centre[1] - 2)..(centre[1] + 2)) \X ((centre[2] - 2)..(centre[2] + 2)) :
              centre \in AlignmentCentres(l, v)}

\* the 30 format modules: row 8 and column 8 along the corner blocks
FormatModules(l) ==
    ({8} \X ((0..5) \cup {7} \cup ((l - 8)..(l - 1))))
    \cup (((0..5) \cup {7, 8} \cup ((l - 7)..(l - 1))) \X {8})

\* the two 6x3 version-information blocks
VersionBlocks(l, v) ==
    IF v >= 7
    THEN ((0..5) \X ((l - 11)..(l - 9))) \cup (((l - 11)..(l - 9)) \X (0..5))
    ELSE {}

FunctionModules(l, v) ==
    CornerBlocks(l) \cup TimingModules(l) \cup AlignmentBlocks(l, v)
    \cup FormatModules(l) \cup {<<l - 8, 8>>} \cup VersionBlocks(l, v)

\* toTable has just called getDataAreas
DataAreasReturned == pc = "getOriginalFormatBits"

(***************************************************************************)
(* C22.  For every version 1..40, getDataAreas marks as non-data exactly   *)
(* these modules and every other module as data: the three 8x8 corner      *)
(* blocks; row 6 and column 6 between them; the 5x5 block around every     *)
(* pair (r, c) of alignment coordinates except the pairs that fall inside  *)
(* a corner block, including for version >= 7 the pairs lying on row 6 and *)
(* on column 6; the 30 format modules; the module (L-8, 8); and for        *)
(* version >= 7 the two 6x3 version-information blocks.                    *)
(***************************************************************************)
C22_NonDataModules ==
    DataAreasReturned =>
        /\ nonDataAreas = FunctionModules(L, version)
        /\ Cardinality(FormatModules(L)) = 30
        /\ version >= 7 =>
              \E centre \in AlignmentCentres(L, version) :
                  centre[1] = 6 /\ alignmentPattern(6, centre[2]) \subseteq nonDataAreas

\* version 7: the block around (6, 22) on the timing row is cleared, its
\* neighbour (9, 22) and the module (9, 9) are data
C22_Witness ==
    /\ DataAreasReturned
    /\ version = 7
    /\ <<6, 22>> \in AlignmentCentres(L, version)
    /\ <<8, 20>> \in nonDataAreas
    /\ <<9, 22>> \notin nonDataAreas
    /\ <<9, 9>> \notin nonDataAreas


(***************************************************************************)
(* getDataAreas statement by statement (src/qr.ts:111-173): nonDataAreas   *)
(* holds the cells of dataAreas set to false so far, alignment_k the       *)
(* number of pairs [r, c] the two alignment loops have gone through.       *)
(***************************************************************************)
DataAreas_Finder ==
    /\ pc = "getDataAreas_finder"
    /\ nonDataAreas' = nonDataAreas \cup finderPatterns(L)
    /\ alignment_k' = 0
    /\ pc' = "getDataAreas_alignment"
    /\ UNCHANGED <<error, inputVars, formatVars, dataCoordinates, decodeVars,
                   bchVars, returned, htmlVars, scan_r, scan_c, scan_dr,
                   scan_iterations>>

\* one pair [r, c] of the alignment loops, or their end
DataAreas_Alignment ==
    /\ pc = "getDataAreas_alignment"
    /\ LET coordinates == alignmentCoordinates(L, version)
           pair == alignmentPair(coordinates, alignment_k)
       IN  IF alignment_k = Len(coordinates) * Len(coordinates)
           THEN /\ pc' = "getDataAreas_timing"
                /\ UNCHANGED <<nonDataAreas, alignment_k>>
           ELSE /\ nonDataAreas' =
                      removeAlignmentPattern(nonDataAreas, pair[1], pair[2])
                /\ alignment_k' = alignment_k + 1
                /\ UNCHANGED pc
    /\ UNCHANGED <<error, inputVars, formatVars, dataCoordinates, decodeVars,
                   bchVars, returned, htmlVars, scan_r, scan_c, scan_dr,
                   scan_iterations>>

DataAreas_Timing ==
    /\ pc = "getDataAreas_timing"
    /\ nonDataAreas' = nonDataAreas \cup timingPatterns(L)
    /\ pc' = "getDataAreas_format"
    /\ UNCHANGED <<error, inputVars, formatVars, dataCoordinates, decodeVars,
                   bchVars, returned, htmlVars, loopVars>>

DataAreas_Format ==
    /\ pc = "getDataAreas_format"
    /\ nonDataAreas' =
          nonDataAreas \cup formatInformation(getFormatCoordinates(L))
    /\ pc' = "getDataAreas_dark"
    /\ UNCHANGED <<error, inputVars, formatVars, dataCoordinates, decodeVars,
                   bchVars, returned, htmlVars, loopVars>>

DataAreas_Dark ==
    /\ pc = "getDataAreas_dark"
    /\ nonDataAreas' = nonDataAreas \cup darkModule(L)
    /\ pc' = "getDataAreas_version"
    /\ UNCHANGED <<error, inputVars, formatVars, dataCoordinates, decodeVars,
                   bchVars, returned, htmlVars, loopVars>>

DataAreas_Version ==
    /\ pc = "getDataAreas_version"
    /\ nonDataAreas' = nonDataAreas \cup versionInformation(L, version)
    /\ pc' = "getDataAreas_return"
    /\ UNCHANGED <<error, inputVars, formatVars, dataCoordinates, decodeVars,
                   bchVars, returned, htmlVars, loopVars>>

\* getDataAreas(L, version, formatCoordinates) is entered for every version
InitAreas ==
    /\ pc = "getDataAreas_finder"
    /\ returned = <<>>
    /\ IdleHtml
    /\ error = "none"
    /\ version \in 1..40
    /\ L = 17 + (4 * version)
    /\ rowLengths = [r \in 1..L |-> L]
    /\ originalQRCode = EmptyGrid
    /\ nonDataAreas = {}
    /\ dataCoordinates = Idle
    /\ alignment_k = 0
    /\ scan_r = Idle
    /\ scan_c = Idle
    /\ scan_dr = Idle
    /\ scan_iterations = Idle
    /\ IdleFormat
    /\ IdleDecode
    /\ IdleBCH

NextAreas ==
    \/ DataAreas_Finder
    \/ DataAreas_Alignment
    \/ DataAreas_Timing
    \/ DataAreas_Format
    \/ DataAreas_Dark
    \/ DataAreas_Version

SpecAreas == InitAreas /\ [][NextAreas]_vars

\* the 5x5 blocks of the first k alignment pairs whose centre is data in a
\* map where the cells of base are cleared
BlocksOfFirst(k, base) ==
    LET coordinates == alignmentCoordinates(L, version)
    IN  UNION {alignmentPattern(alignmentPair(coordinates, j)[1],
                                alignmentPair(coordinates, j)[2]) :
                  j \in {i \in 0..(k - 1) :
                            alignmentPair(coordinates, i) \notin base}}

NumAlignmentPairs ==
    Len(alignmentCoordinates(L, version)) * Len(alignmentCoordinates(L, version))

(***************************************************************************)
(* C23 as stated.  getDataAreas clears the regions in the order corner     *)
(* blocks, timing patterns, alignment blocks, then format modules, dark    *)
(* module and version blocks, and tests each alignment centre against the  *)
(* map as it stands after the corner blocks and the timing patterns have   *)
(* been cleared: a 5x5 block is cleared only if its centre is still marked *)
(* data at that point.                                                     *)
(***************************************************************************)
C23_TimingBeforeAlignment ==
    LET base == CornerBlocks(L) \cup TimingModules(L)
    IN  /\ pc = "getDataAreas_alignment" =>
              nonDataAreas = base \cup BlocksOfFirst(alignment_k, base)
        /\ pc = "getDataAreas_return" =>
              nonDataAreas = base \cup BlocksOfFirst(NumAlignmentPairs, base)
                             \cup FormatModules(L) \cup {<<L - 8, 8>>}
                             \cup VersionBlocks(L, version)

(***************************************************************************)
(* C23 as amended.  getDataAreas clears the corner blocks, then the        *)
(* alignment blocks, then the timing patterns, then the format modules,    *)
(* the dark module and the version blocks, and tests each alignment centre *)
(* against the map as it stands after the corner blocks only (and the      *)
(* blocks of the pairs before it) have been cleared: a 5x5 block is        *)
(* cleared exactly if its centre is outside the corner blocks, the centres *)
(* on row 6 and column 6 included.                                         *)
(***************************************************************************)
C23_AlignmentBeforeTiming ==
    LET corner == CornerBlocks(L)
        aligned == corner \cup BlocksOfFirst(NumAlignmentPairs, corner)
        timed == aligned \cup TimingModules(L)
        formatted == timed \cup FormatModules(L)
    IN  /\ pc = "getDataAreas_alignment" =>
              nonDataAreas = corner \cup BlocksOfFirst(alignment_k, corner)
        /\ pc = "getDataAreas_timing" => nonDataAreas = aligned
        /\ pc = "getDataAreas_format" => nonDataAreas = timed
        /\ pc = "getDataAreas_dark" => nonDataAreas = formatted
        /\ pc = "getDataAreas_version" =>
              nonDataAreas = formatted \cup {<<L - 8, 8>>}
        /\ pc = "getDataAreas_return" =>
              /\ nonDataAreas = formatted \cup {<<L - 8, 8>>}
                                \cup VersionBlocks(L, version)
              /\ nonDataAreas
                    = getDataAreas(L, version, getFormatCoordinates(L))

\* version 7, the alignment loops done: the block around (6, 22) is cleared
\* while the timing module (6, 10) is still data
C23_Witness ==
    /\ pc = "getDataAreas_timing"
    /\ version = 7
    /\ alignmentPattern(6, 22) \subseteq nonDataAreas
    /\ <<6, 10>> \notin nonDataAreas


\* the values of the list alignmentCoordinates
AlignmentValues ==
    {alignmentCoordinates(L, version)[k] :
        k \in 1..Len(alignmentCoordinates(L, version))}

\* the quotients of the interpolation are integers, so that the integer
\* division of the model is the division of the source
InterpolationExact ==
    LET n == numCoordinates(version)
    IN  \A i \in 0..(n - 3) :
            ((secondCoordinate[version + 1] * i)
             + (lastCoordinate(L) * (n - 2 - i))) % (n - 2) = 0

\* the values from the second coordinate on are spaced by d and end at L - 7
EquallySpaced(d) ==
    LET n == numCoordinates(version)
        second == secondCoordinate[version + 1]
    IN  /\ AlignmentValues \ {6} = {second + (d * j) : j \in 0..(n - 2)}
        /\ second + (d * (n - 2)) = L - 7

\* the alignment loops of getDataAreas are running or done
AlignmentEntered ==
    pc \in {"getDataAreas_alignment", "getDataAreas_timing"}

(***************************************************************************)
(* C24.  For every version 2..40 the alignment coordinate list computed in *)
(* getDataAreas consists of exactly floor(version/7)+2 distinct integers,  *)
(* the smallest being 6 and the largest L-7, with equal spacing from the   *)
(* second coordinate to L-7; for version 1 the list holds only the value 6 *)
(* and no 5x5 block is cleared; every 5x5 block that is cleared lies       *)
(* wholly inside the grid.                                                 *)
(***************************************************************************)
C24_AlignmentCoordinates ==
    AlignmentEntered =>
        /\ version >= 2 =>
              /\ Len(alignmentCoordinates(L, version)) = (version \div 7) + 2
              /\ Cardinality(AlignmentValues) = (version \div 7) + 2
              /\ InterpolationExact
              /\ \A x \in AlignmentValues : 6 <= x /\ x <= L - 7
              /\ {6, L - 7} \subseteq AlignmentValues
              /\ \E d \in 1..L : EquallySpaced(d)
        /\ version = 1 =>
              /\ AlignmentValues = {6}
              /\ nonDataAreas = CornerBlocks(L)
        /\ InGrid(nonDataAreas)
        /\ \A k \in 0..(alignment_k - 1) :
              LET pair == alignmentPair(alignmentCoordinates(L, version), k)
              IN  pair \notin CornerBlocks(L) =>
                      /\ alignmentPattern(pair[1], pair[2]) \subseteq nonDataAreas
                      /\ InGrid(alignmentPattern(pair[1], pair[2]))

\* version 14: the list is 6, 26, 66, 46 and the block around (66, 66), the
\* one nearest to the corner without finder pattern, is cleared
C24_Witness ==
    /\ pc = "getDataAreas_timing"
    /\ version = 14
    /\ alignmentCoordinates(L, version) = <<6, 26, 66, 46>>
    /\ alignmentPattern(66, 66) \subseteq nonDataAreas
    /\ <<69, 69>> \notin nonDataAreas


\* the values of c for which scan runs the iterations of a column pair
pairColumns(c) == {columnAfter(c, k) : k \in 0..c} \cap (0..c)

\* the columns of the modules the scan examines: c and c - 1
ExaminedColumns == UNION {{c, c - 1} : c \in pairColumns(L - 1)}

\* the modules that dataAreas marks as data
DataModules == ((0..(L - 1)) \X (0..(L - 1))) \ nonDataAreas

\* toTable has just called getDataCoordinates
DataCoordinatesReturned == pc = "getMaskedQRCode"

(***************************************************************************)
(* C25.  For every version 1..40, the sequence returned by                 *)
(* getDataCoordinates contains every module marked data exactly once and   *)
(* no module that is not marked data; no module of column 6 is ever        *)
(* examined by the scan.                                                   *)
(***************************************************************************)
C25_EveryDataModuleOnce ==
    DataCoordinatesReturned =>
        /\ {dataCoordinates[k] : k \in 1..Len(dataCoordinates)} = DataModules
        /\ Len(dataCoordinates) = Cardinality(DataModules)
        /\ 6 \notin ExaminedColumns
        /\ ExaminedColumns = (0..(L - 1)) \ {6}

\* version 3: the scan starts at (28, 28) and ends with the modules of the
\* columns 1 and 0 between the finder patterns, walked downwards
C25_Witness ==
    /\ DataCoordinatesReturned
    /\ version = 3
    /\ dataCoordinates[1] = <<28, 28>>
    /\ dataCoordinates[Len(dataCoordinates)] = <<20, 0>>
    /\ <<20, 6>> \in nonDataAreas


(***************************************************************************)
(* getDataCoordinates iteration by iteration (src/qr.ts:424-454):          *)
(* dataCoordinates holds the coordinates pushed so far, scan_iterations    *)
(* counts the iterations of the while loop that have run.                  *)
(***************************************************************************)
\* dataCoordinates after the two tests of one iteration at [r, c]
pushData(coordinates, cleared, l, r, c) ==
    LET first == IF dataAreasAt(cleared, l, r, c)
                 THEN Append(coordinates, <<r, c>>)
                 ELSE coordinates
    IN  IF dataAreasAt(cleared, l, r, c - 1)
        THEN Append(first, <<r, c - 1>>)
        ELSE first

\* the turn with the direction set back to upwards at every column pair
turnAround_alwaysUp(l, r, c, dr) ==
    IF r + dr = -1 THEN <<l - 1, c - 2, -1>>
    ELSE IF r + dr = l THEN <<l - 1, c - 2, -1>>
    ELSE <<r + dr, c, dr>>

\* r, c and dr after r += dr and the tests r === -1 and r === L
turnAround(l, r, c, dr) ==
    IF r + dr = -1 THEN <<0, c - 2, 1>>
    ELSE IF r + dr = l THEN <<l - 1, c - 2, -1>>
    ELSE <<r + dr, c, dr>>

\* the column kept as it is
skipTiming_none(c) == c

\* if (c == 6) c -= 1
skipTiming(c) == IF c = 6 THEN c - 1 ELSE c

\* one test of while (c >= 0) and, where it holds, one run of the body;
\* dataAreas[r] is undefined for a row outside the grid, and reading its
\* element throws
Scan_Iteration ==
    /\ pc = "getDataCoordinates_while"
    /\ IF scan_c < 0
       THEN /\ pc' = "getDataCoordinates_return"
            /\ UNCHANGED <<error, dataCoordinates, scan_r, scan_c, scan_dr,
                           scan_iterations>>
       ELSE IF scan_r < 0 \/ scan_r >= L
       THEN /\ pc' = "thrown"
            /\ error' = "TypeError"
            /\ UNCHANGED <<dataCoordinates, scan_r, scan_c, scan_dr,
                           scan_iterations>>
       ELSE LET turned == turnAround(L, scan_r, scan_c, scan_dr)
            IN  /\ dataCoordinates' =
                      pushData(dataCoordinates, nonDataAreas, L, scan_r, scan_c)
                /\ scan_r' = turned[1]
                /\ scan_c' = skipTiming(turned[2])
                /\ scan_dr' = turned[3]
                /\ scan_iterations' = scan_iterations + 1
                /\ UNCHANGED <<pc, error>>
    /\ UNCHANGED <<inputVars, formatVars, nonDataAreas, alignment_k, decodeVars,
                   bchVars, returned, htmlVars>>

\* the largest version whose scan is run iteration by iteration
MaxScanVersion == 20

\* getDataCoordinates(L, dataAreas) is entered with the dataAreas of the
\* version
InitScan ==
    /\ pc = "getDataCoordinates_while"
    /\ returned = <<>>
    /\ IdleHtml
    /\ error = "none"
    /\ version \in 1..MaxScanVersion
    /\ L = 17 + (4 * version)
    /\ rowLengths = [r \in 1..L |-> L]
    /\ originalQRCode = EmptyGrid
    /\ nonDataAreas = getDataAreas(L, version, getFormatCoordinates(L))
    /\ dataCoordinates = <<>>
    /\ alignment_k = Idle
    /\ scan_r = L - 1
    /\ scan_c = L - 1
    /\ scan_dr = -1
    /\ scan_iterations = 0
    /\ IdleFormat
    /\ IdleDecode
    /\ IdleBCH

NextScan == Scan_Iteration

SpecScan == InitScan /\ [][NextScan]_vars


\* the column c of the p-th column pair, from 0: L-1, L-3, ..., 8, 5, 3, 1
PairColumn(p) ==
    IF L - 1 - (2 * p) >= 8 THEN L - 1 - (2 * p) ELSE L - 2 - (2 * p)

\* the direction in which the p-th pair is walked: upwards first
PairDirection(p) == IF p % 2 = 0 THEN -1 ELSE 1

\* r, c and dr at the start of iteration n, from 0: the n % L-th row of the
\* pair n \div L in the direction of that pair
IterationAt(n) ==
    LET p == n \div L
        q == n % L
    IN  <<IF PairDirection(p) = -1 THEN L - 1 - q ELSE q,
          PairColumn(p),
          PairDirection(p)>>

NumIterations == (L * (L - 1)) \div 2

\* the modules in the order C26 has them examined, column c before c - 1
ExaminedInOrder ==
    [m \in 1..(2 * NumIterations) |->
        <<IterationAt((m - 1) \div 2)[1],
          IterationAt((m - 1) \div 2)[2] - ((m - 1) % 2)>>]

IsDataModule(cell) == cell \notin nonDataAreas

ScanRunning == pc = "getDataCoordinates_while" /\ scan_c >= 0

ScanReturned == pc = "getDataCoordinates_return"

(***************************************************************************)
(* C26.  The scan examines the column pairs (c, c-1) for c = L-1, L-3,     *)
(* ..., 8 and then c = 5, 3, 1, in that order; the pair at c = L-1 is      *)
(* walked from row L-1 up to row 0 and each following pair in the          *)
(* direction opposite to the pair before it (the alternation is not reset  *)
(* by skipping column 6); within one row the module in column c is emitted *)
(* before the module in column c-1.                                        *)
(***************************************************************************)
C26_ZigzagOrder ==
    /\ ScanRunning =>
          <<scan_r, scan_c, scan_dr>> = IterationAt(scan_iterations)
    /\ ScanReturned =>
          /\ dataCoordinates = SelectSeq(ExaminedInOrder, IsDataModule)
          /\ dataCoordinates = getDataCoordinates(L, nonDataAreas)

\* version 2 (L = 25): the pair at c = 8 is the ninth, walked upwards; the
\* next one is the pair at c = 5, walked downwards from row 0
C26_Witness ==
    /\ ScanRunning
    /\ version = 2
    /\ scan_iterations = 9 * 25
    /\ <<scan_r, scan_c, scan_dr>> = <<0, 5, 1>>
    /\ dataCoordinates[Len(dataCoordinates)] = <<9, 7>>
    /\ dataCoordinates[Len(dataCoordinates) - 1] = <<9, 8>>

(***************************************************************************)
(* C27.  For every L = 4*version + 17, the scan loop of getDataCoordinates *)
(* terminates after exactly L*(L-1)/2 iterations, and at the start of      *)
(* every iteration 0 <= r <= L-1 and 1 <= c <= L-1, so both modules it     *)
(* reads, (r, c) and (r, c-1), are inside the grid.                        *)
(***************************************************************************)
C27_ScanTerminatesInsideGrid ==
    /\ pc # "thrown"
    /\ pc = "getDataCoordinates_while" =>
          /\ scan_iterations <= NumIterations
          /\ scan_c < 0 <=> scan_iterations = NumIterations
    /\ ScanRunning =>
          /\ 0 <= scan_r /\ scan_r <= L - 1
          /\ 1 <= scan_c /\ scan_c <= L - 1
          /\ InGrid({<<scan_r, scan_c>>, <<scan_r, scan_c - 1>>})
    /\ ScanReturned => scan_iterations = NumIterations

\* version 1 (L = 21): the loop is left after 210 iterations, with c = -1
C27_Witness ==
    /\ ScanReturned
    /\ version = 1
    /\ scan_iterations = 210
    /\ scan_c = -1
    /\ Len(dataCoordinates) = 208


\* bit j (from 0) of physical codeword i (from 0): the bit of the masked grid
\* at data coordinate 8i + j of the scan order
PhysicalBit(i, j) == bitAt(maskedQRCode, dataCoordinates[(8 * i) + j + 1])

\* the value of physical codeword i, its first bit the most significant
PhysicalValue(i) ==
    (128 * PhysicalBit(i, 0)) + (64 * PhysicalBit(i, 1))
    + (32 * PhysicalBit(i, 2)) + (16 * PhysicalBit(i, 3))
    + (8 * PhysicalBit(i, 4)) + (4 * PhysicalBit(i, 5))
    + (2 * PhysicalBit(i, 6)) + PhysicalBit(i, 7)

\* the physical position of every logical codeword, in block-major order
PositionOfLogical(blocks) ==
    flatten(Tabulate(PhysicalPositions(blocks)), 1, Len(blocks))

(***************************************************************************)
(* C28.  getCodewords builds exactly n physical codewords, n being the sum *)
(* of the decoded level's per-block data-codeword counts; physical         *)
(* codeword i consists of the masked grid's bits at data coordinates 8i,   *)
(* 8i+1, ..., 8i+7 in scan order, the first being the most significant     *)
(* bit; no bit of the masked grid outside the data coordinates, and no     *)
(* data coordinate from index 8n on, influences the returned codewords:    *)
(* each of them is one of the n physical codewords, every physical         *)
(* codeword is returned once.                                              *)
(***************************************************************************)
C28_CodewordsOfFirstCoordinates ==
    pc = "getEncodingMode" =>
        LET n == DataCodewords(version, errorCorrectionLevel)
            position == Tabulate(PositionOfLogical(DataBlocks))
        IN  /\ Len(codewords) = n
            /\ 8 * n <= Len(dataCoordinates)
            /\ {position[k] : k \in 1..n} = 0..(n - 1)
            /\ \A k \in 1..n :
                  /\ codewords[k]
                        = [j \in 1..8 |-> PhysicalBit(position[k], j - 1)]
                  /\ BigEndian(codewords[k]) = PhysicalValue(position[k])

\* version 1, level H: 9 codewords from the first 72 of 208 data coordinates;
\* a single block, so codeword 3 is physical codeword 3
C28_Witness ==
    /\ pc = "getEncodingMode"
    /\ version = 1
    /\ errorCorrectionLevel = "H"
    /\ Len(codewords) = 9
    /\ Len(dataCoordinates) = 208
    /\ codewords[4] = [j \in 1..8 |-> PhysicalBit(3, j - 1)]
    /\ \E j \in 0..6 : PhysicalBit(3, j) # PhysicalBit(3, j + 1)


\* the largest data-codeword total of the version over the four levels
LargestDataTotal ==
    CHOOSE n \in {DataCodewords(version, level) : level \in {"L", "M", "Q", "H"}} :
        \A level \in {"L", "M", "Q", "H"} : DataCodewords(version, level) <= n

(***************************************************************************)
(* C29.  For every version 1..40, 8 times the largest data-codeword total  *)
(* over the four levels is at most the length of the data coordinate       *)
(* sequence, so getCodewords (which indexes data coordinates 0 ..          *)
(* 8*maxNumCodewords-1 for every level, not only the decoded one) never    *)
(* reads past the end of the sequence and never fails there.               *)
(***************************************************************************)
C29_TableInsideCoordinates ==
    /\ 8 * LargestDataTotal <= Len(dataCoordinates)
    /\ LargestDataTotal = getMaxNumCodewords(getNumCodewordsList(version))
    /\ LargestDataTotal >= DataCodewords(version, errorCorrectionLevel)
    /\ CodewordsAssembled => pc = "getEncodingMode" /\ error = "none"

\* version 1, level H: the table runs over the 19 codewords of level L, 152
\* of the 208 data coordinates, while the level has 9 codewords
C29_Witness ==
    /\ pc = "getEncodingMode"
    /\ version = 1
    /\ errorCorrectionLevel = "H"
    /\ LargestDataTotal = 19
    /\ Len(codewords) = 9
    /\ Len(dataCoordinates) = 208


\* the 45 characters of the alphanumeric table
TableCharacters == {alphanumericTable[k] : k \in 1..Len(alphanumericTable)}

(***************************************************************************)
(* C30.  In Alphanumeric mode every character of the decoded message is    *)
(* one of the 45 characters of the alphanumeric table, whatever the data   *)
(* codewords hold, including 11-bit group values of 2025 and above and     *)
(* final 6-bit group values of 45 and above.                               *)
(***************************************************************************)
C30_AlphanumericCharactersOfTable ==
    (pc = "done" /\ encodingMode.name = "Alphanumeric") =>
        \A k \in 1..Len(decodedData) : decodedData[k] \in TableCharacters


=============================================================================
